---- MODULE Spec2Model ----
(***************************************************************************)
(* A model of the mavlink-shouter router: the SysCompId match predicate,   *)
(* the per-endpoint target database, the endpoint receiver and sender      *)
(* tasks around the routing plane, and the streaming frame codec.          *)
(*                                                                         *)
(* Three groups of variables, one per specification:                       *)
(*   SpecDb     one target database driven call by call (dbVars)           *)
(*   Spec       the endpoints and the routing plane (rtVars)               *)
(*   SpecCodec  one codec in front of a byte stream (cdVars)               *)
(* Each specification leaves the other groups at their initial values.     *)
(***************************************************************************)
EXTENDS Integers, Sequences, FiniteSets, TLC

VARIABLES
    \* ---- SpecDb: one TargetDatabase and the last call made on it
    targets,     \* TargetDatabase.targets: Vec<(SysCompId, SocketAddr)>
    firstSeen,   \* history: the SysCompIds in the order of their first insertion
    call,        \* history: the last call, its arguments, the Vec before it, its result
    \* ---- Spec: the endpoints and the routing plane
    db,          \* per endpoint: discovered_targets, the Vec of its TargetDatabase
    hist,        \* every frame received so far, in arrival order; a frame's
                 \* number is its index (the Arc<[u8]> the fan-out shares)
    rpc,         \* per endpoint: the receiver task's position
    rmsg,        \* per endpoint: the frame recv() returned, not yet published
    queue,       \* per endpoint: the frames its subscription has not read yet
    lagged,      \* per endpoint: frames its subscription lost since its last recv
    sent         \* per endpoint: one record per frame its sender task took: the
                 \* addresses fed to the sink, in order, whether a feed failed,
                 \* and (history) the Vec the lookup read
    ,
    \* ---- SpecCodec: one Codec in front of a byte stream
    scen,        \* history: the stream as prefix ++ frame ++ suffix
    stream,      \* the bytes of the stream that have not arrived yet
    buf,         \* src: the BytesMut the decoder is called on
    readable,    \* the framed reader's is_readable: decode is due on src
    consumed,    \* history: the number of bytes taken off the front of src so far
    out,         \* the Messages decode returned, in order, each with (history)
                 \* the buffer of its call and the stream offset of its data
    last,        \* history: the last decode call, its buffer before and after
    dst,         \* dst: the BytesMut the encoder appends to
    lastEnc      \* history: the last encode call, its item and dst before it
    ,
    \* ---- SpecLife: the tasks of the endpoints and the ends of the channels
    cap,         \* the configured capacity of the channels of the routing plane
    plane,       \* whether the far end of the receivers' channel still exists
    producers,   \* the holders of a producer handle of the fan-out channel
    spc,         \* per endpoint: the sender task's position
    logged,      \* per endpoint: the lag counts its sender task has logged
    rerrs        \* per endpoint: the recv() calls that returned an error
    ,
    \* ---- SpecRouter: the Router between the receivers and the senders
    msgs,        \* msg_rx: the frames sent to the Router it has not taken yet
    routing,     \* the frame start_routing holds and the senders still to get it
    table,       \* routing_table.targets: (SysCompId, endpoint) in insertion order
    \* ---- SpecDeserializer: one Deserializer given one datagram
    dgram,       \* the bytes of the datagram
    deser,       \* history: what deserialize did with it, per source variant
    \* ---- SpecMsgParser: one MsgParser reading one message definition
    xml,         \* the events of the definition the reader has not delivered yet
    decl,        \* history: the definition as declared
    msg_fields,  \* MsgParser.msg_fields
    extensions_start_idx,  \* MsgParser.extensions_start_idx, -1 for None
    is_targeted_msg,       \* MsgParser.is_targeted_msg
    parsed,      \* what try_get_offsets_from_msg returned
    \* ---- SpecParser: one Parser loading a tree of definition files
    files,       \* the content of every file: includes and messages, in order
    stack,       \* the parse_xml calls in progress: file and position in it
    targeted_messages,     \* Parser.targeted_messages
    visited_xml_files,     \* Parser.visited_xml_files
    loaded,      \* what try_get_offsets_from_xml returned
    \* ---- SpecDbLock: tasks calling one TargetDatabase at the same time
    rwlock,      \* the RwLock around targets: who holds it and how
    dbtask,      \* per task: where it is in its call, and the call's locals
    applied,     \* history: the insert_or_update calls in the order they ended
    nops,        \* history: the calls begun
    \* ---- SpecTcp: the tasks of one TcpTransmitter
    connections, \* the map behind the Mutex: remote address -> writer half
    mutex,       \* the task that holds the Mutex guard, or "none"
    conns,       \* the connections accepted: address, peer side, reader task
    acceptor,    \* accept_connections: where it is, the connection it holds
    wtask,       \* write: where it is, the frame's address, the writer it uses
    wlog,        \* history: per frame write took, the writer it used (0: none)
                 \* and the connections of the address that were live then
    rxup         \* whether the Receiver end of msg_tx still exists

dbVars == <<targets, firstSeen, call>>

rtVars == <<db, hist, rpc, rmsg, queue, lagged, sent>>

cdVars == <<scen, stream, buf, readable, consumed, out, last, dst, lastEnc>>

lfVars == <<cap, plane, producers, spc, logged, rerrs>>

rpVars == <<msgs, routing, table>>

dsVars == <<dgram, deser>>

mpVars == <<xml, decl, msg_fields, extensions_start_idx, is_targeted_msg, parsed>>

xpVars == <<files, stack, targeted_messages, visited_xml_files, loaded>>

lkVars == <<rwlock, dbtask, applied, nops>>

tcVars == <<connections, mutex, conns, acceptor, wtask, wlog, rxup>>

\* The tasks that share a lock.
ccVars == <<lkVars, tcVars>>

\* The parts of the program beside the endpoints and the codec.
sideVars == <<rpVars, dsVars, mpVars, xpVars, ccVars>>

vars == <<dbVars, rtVars, cdVars, lfVars, sideVars>>

\* No frame has reached the Router.
RpIdle ==
    /\ msgs = <<>>
    /\ routing = [msg |-> 0, todo |-> <<>>]
    /\ table = <<>>

\* No datagram was given to a Deserializer.
DsIdle ==
    /\ dgram = <<>>
    /\ deser = [called |-> FALSE]

\* No message definition is being read.
MpIdle ==
    /\ xml = <<>>
    /\ decl = <<>>
    /\ msg_fields = <<>>
    /\ extensions_start_idx = -1
    /\ is_targeted_msg = FALSE
    /\ parsed = [kind |-> "none"]

\* No definition file is being loaded.
XpIdle ==
    /\ files = <<>>
    /\ stack = <<>>
    /\ targeted_messages = <<>>
    /\ visited_xml_files = {}
    /\ loaded = [kind |-> "none"]

\* The tasks of the database: two that call insert_or_update and one that
\* calls get_target_addresses.
DbWriters == {"w1", "w2"}

DbReaders == {"r1"}

DbTasks == DbWriters \cup DbReaders

\* A task outside every call.
DbTaskIdle ==
    [pc |-> "idle", sender |-> <<0, 0>>, addr |-> "", index |-> 0,
     upgraded |-> FALSE, seen |-> <<>>, res |-> <<>>]

\* No task is in a call on the database, and nobody holds its lock.
LkIdle ==
    /\ rwlock = [readers |-> {}, upgradable |-> {}, writer |-> {}]
    /\ dbtask = [t \in DbTasks |-> DbTaskIdle]
    /\ applied = <<>>
    /\ nops = 0

\* The remote addresses peers connect from.
TcpAddrs == {"p1", "p2"}

\* A TcpTransmitter nobody has connected to.
TcIdle ==
    /\ connections = [a \in TcpAddrs |-> 0]
    /\ mutex = "none"
    /\ conns = <<>>
    /\ acceptor = [pc |-> "accept", conn |-> 0]
    /\ wtask = [pc |-> "recv", addr |-> "", conn |-> 0]
    /\ wlog = <<>>
    /\ rxup = TRUE

CcIdle == LkIdle /\ TcIdle

SideIdle == RpIdle /\ DsIdle /\ MpIdle /\ XpIdle /\ CcIdle

(***************************************************************************)
(* Bounds of the model.                                                    *)
(***************************************************************************)
\* SysId and CompId are u8; the model draws them from 0..MaxId.
MaxId == 2

\* Frames received over all endpoints in one run of Spec.
MaxFrames == 3

\* Payload lengths of the frames the codec is run on.
MaxPayloadLen == 2

\* Bytes one read appends to the codec's buffer, unless it appends all.
MaxChunk == 3

\* The channel capacities SpecLife is configured with: 1..MaxCap.
MaxCap == 1

\* recv() calls per receiver that return an error in one run.
MaxErrors == 1

\* Datagrams of every length up to this one are given to the Deserializer.
MaxDgramLen == 16

\* Fields and <extensions/> markers of one message definition.
MaxFields == 5

\* Includes and messages of the root definition file.
MaxItems == 2

\* parse_xml calls the stack of the loading thread has room for.
MaxDepth == 4

\* Calls the tasks of SpecDbLock begin on the database.
MaxOps == 4

\* Connections the TcpTransmitter accepts.
MaxConns == 3

\* Frames the write task of the TcpTransmitter takes.
MaxWrites == 1

(***************************************************************************)
(* Program constants.                                                      *)
(***************************************************************************)
\* Capacity of the channels of the routing plane: channel_size.unwrap_or(16).
ChannelCap == 16

\* Capacity of the channel from the Router to an endpoint's sender task.
EndpointCap == 16

(***************************************************************************)
(* SysCompId and RoutingInfo (mavlink/mod.rs).  A SysCompId is the pair    *)
(* <<sys_id, comp_id>>.                                                    *)
(***************************************************************************)
SysCompIds == (0..MaxId) \X (0..MaxId)

sys_id(id) == id[1]

comp_id(id) == id[2]

\* A slip: only the component id is tested.
is_valid_sender_comp(id) == comp_id(id) # 0

is_valid_sender(id) == sys_id(id) # 0 /\ comp_id(id) # 0

is_broadcast(id) == sys_id(id) = 0

is_sys_broadcast(id) == sys_id(id) # 0 /\ comp_id(id) = 0

\* A slip in the system-broadcast arm: the sys_id comparison is dropped.
matches_nosys(self, other) ==
    \/ is_broadcast(self) \/ is_broadcast(other)
    \/ is_sys_broadcast(self) \/ is_sys_broadcast(other)
    \/ self = other

\* A slip: the full-broadcast arm is dropped.
matches_nobroadcast(self, other) ==
    \/ ((is_sys_broadcast(self) \/ is_sys_broadcast(other))
            /\ sys_id(self) = sys_id(other))
    \/ self = other

matches(self, other) ==
    LET isBroadcast == is_broadcast(self) \/ is_broadcast(other)
        isSysBroadcast == is_sys_broadcast(self) \/ is_sys_broadcast(other)
    IN  \/ isBroadcast
        \/ (isSysBroadcast /\ sys_id(self) = sys_id(other))
        \/ self = other

\* RoutingInfo is the record [sender, target].
RoutingInfo(s, t) == [sender |-> s, target |-> t]

RoutingInfo_matches(ri, target) ==
    matches(ri.target, target) /\ ri.sender # target

(***************************************************************************)
(* TargetDatabase (endpoint/target_database.rs).  The Vec is a sequence of *)
(* <<SysCompId, addr>>.  Each call runs under the lock (upgradable read,   *)
(* upgraded before the write; shared read for the lookup), so each is one  *)
(* atomic step on the Vec.                                                 *)
(***************************************************************************)
\* A slip: the search never finds the sender.
position_none(t, sender) == 0

\* targets.iter().position(|(t, _)| t == &sender): the first index, 0 for None.
position(t, sender) ==
    IF \E i \in 1..Len(t) : t[i][1] = sender
    THEN CHOOSE i \in 1..Len(t) :
            /\ t[i][1] = sender
            /\ \A j \in 1..(i - 1) : t[j][1] # sender
    ELSE 0

\* A slip: an address change is pushed as a new entry instead of overwriting.
insert_or_update_push(t, sender, addr) ==
    LET index == position(t, sender)
    IN  IF index # 0 /\ t[index][2] = addr THEN t
        ELSE Append(t, <<sender, addr>>)

\* A slip: an address change removes the entry and pushes the new one.
insert_or_update_move(t, sender, addr) ==
    LET index == position(t, sender)
    IN  IF index # 0 /\ t[index][2] # addr
        THEN Append(SubSeq(t, 1, index - 1) \o SubSeq(t, index + 1, Len(t)),
                    <<sender, addr>>)
        ELSE IF index = 0
        THEN Append(t, <<sender, addr>>)
        ELSE t

\* A slip: an entry that exists is never overwritten.
insert_or_update_keep(t, sender, addr) ==
    IF position(t, sender) # 0 THEN t ELSE Append(t, <<sender, addr>>)

\* A slip: the push is not guarded by index.is_none().
insert_or_update_dup(t, sender, addr) ==
    LET index == position(t, sender)
    IN  IF index # 0 /\ t[index][2] # addr
        THEN [t EXCEPT ![index] = <<sender, addr>>]
        ELSE Append(t, <<sender, addr>>)

insert_or_update(t, sender, addr) ==
    LET index == position(t, sender)
    IN  IF index # 0 /\ t[index][2] # addr
        THEN [t EXCEPT ![index] = <<sender, addr>>]
        ELSE IF index = 0
        THEN Append(t, <<sender, addr>>)
        ELSE t

RECURSIVE filter_map(_, _)
\* .iter().filter(|(t, _)| routing_info.matches(*t)).map(|(_, addr)| *addr).collect()
filter_map(t, ri) ==
    IF t = <<>> THEN <<>>
    ELSE LET rest == filter_map(Tail(t), ri)
         IN  IF RoutingInfo_matches(ri, Head(t)[1])
             THEN <<Head(t)[2]>> \o rest
             ELSE rest

RECURSIVE filter_map_target_only(_, _)
\* A slip: the filter forgets the sender test of RoutingInfo::matches.
filter_map_target_only(t, ri) ==
    IF t = <<>> THEN <<>>
    ELSE LET rest == filter_map_target_only(Tail(t), ri)
         IN  IF matches(ri.target, Head(t)[1])
             THEN <<Head(t)[2]>> \o rest
             ELSE rest

get_target_addresses_reflecting(t, ri) == filter_map_target_only(t, ri)

RECURSIVE first_occurrences(_)
first_occurrences(seq) ==
    IF seq = <<>> THEN <<>>
    ELSE LET init == SubSeq(seq, 1, Len(seq) - 1)
             x == seq[Len(seq)]
         IN  IF \E i \in 1..Len(init) : init[i] = x
             THEN first_occurrences(init)
             ELSE Append(first_occurrences(init), x)

\* A lookup that yields every address once.
get_target_addresses_dedup(t, ri) == first_occurrences(filter_map(t, ri))

get_target_addresses(t, ri) == filter_map(t, ri)

(***************************************************************************)
(* mavlink/mod.rs: the framing constants of the two protocol versions.     *)
(***************************************************************************)
v1_PACKET_MAGIC == 254

v1_MIN_PACKET_LEN == 8

v1_HEADER_LEN == 6

v1_CHECKSUM_LEN == 2

v2_PACKET_MAGIC == 253

v2_IFLAG_SIGNED == 1

v2_MIN_PACKET_LEN == 12

v2_HEADER_LEN == 10

v2_CHECKSUM_LEN == 2

v2_SIGNATURE_LEN == 13

(***************************************************************************)
(* mavlink/codec.rs: Codec.  A buffer is a sequence of bytes; the source   *)
(* indexes from 0, Byte(b, i) is b[i] of the source.  A read outside the   *)
(* buffer panics in the source: here it reads 0 and the call's result      *)
(* carries panic = TRUE.                                                   *)
(***************************************************************************)
InRange(b, i) == i < Len(b)

Byte(b, i) == IF InRange(b, i) THEN b[i + 1] ELSE 0

\* &data[from..to]: panics when to > data.len() (from <= to in every use).
\* A slip: the slice runs to the end of the frame.
Slice_to_end(b, from, to) == SubSeq(b, from + 1, Len(b))

Slice(b, from, to) == SubSeq(b, from + 1, IF to <= Len(b) THEN to ELSE Len(b))

\* inc_flags & IFLAG_SIGNED != 0, for the one-bit mask IFLAG_SIGNED = 0x01.
\* A slip: the flag is never seen.
Signed_never(inc_flags) == FALSE

Signed(inc_flags) == (inc_flags % (2 * v2_IFLAG_SIGNED)) \div v2_IFLAG_SIGNED # 0

\* Codec.offsets: msg_id -> Offsets {system_id, component_id: Option}, the
\* table loaded from the message definitions (an Option is a sequence of at
\* most one element).  21 PARAM_REQUEST_LIST: target_system, target_component;
\* 11 SET_MODE: custom_mode: u32, target_system, base_mode.
OffsetsTable ==
    (21 :> [system_id |-> 0, component_id |-> <<1>>])
        @@ (11 :> [system_id |-> 4, component_id |-> <<>>])

Message(routing_info, data) == [routing_info |-> routing_info, data |-> data]

NoMessage == Message(RoutingInfo(<<0, 0>>, <<0, 0>>), <<>>)

\* What one call leaves: Option<Message>, the buffer, the bytes it advanced
\* over before the frame, and whether any read was out of range.
Returned(some, item, src, skip, panic) ==
    [some |-> some, item |-> item, src |-> src, skip |-> skip, panic |-> panic]

\* A slip: a call that returns nothing empties the buffer.
None_clear(src, panic) == Returned(FALSE, NoMessage, <<>>, 0, panic)

None(src, panic) == Returned(FALSE, NoMessage, src, 0, panic)

target_from_payload(msg_id, payload) ==
    IF msg_id \in DOMAIN OffsetsTable
    THEN LET offsets == OffsetsTable[msg_id]
             target_sys_id == Byte(payload, offsets.system_id)
             target_comp_id ==
                 IF offsets.component_id = <<>> THEN 0
                 ELSE Byte(payload, offsets.component_id[1])
         IN  <<target_sys_id, target_comp_id>>
    ELSE <<0, 0>>

\* A slip: the length check against MIN_PACKET_LEN is left out.
decode_v1_nomin(src) ==
    LET payload_len == Byte(src, 1)
        expected_len == v1_HEADER_LEN + payload_len + v1_CHECKSUM_LEN
    IN  IF Len(src) < expected_len THEN None(src, ~InRange(src, 1))
        ELSE LET data == SubSeq(src, 1, expected_len)
                 sender == <<Byte(data, 3), Byte(data, 4)>>
                 msg_id == Byte(data, 5)
                 payload == Slice(data, v1_HEADER_LEN, payload_len + v1_HEADER_LEN)
             IN  Returned(TRUE,
                     Message(RoutingInfo(sender, target_from_payload(msg_id, payload)), data),
                     SubSeq(src, expected_len + 1, Len(src)), 0,
                     \/ ~InRange(src, 1)
                     \/ ~InRange(data, 3) \/ ~InRange(data, 4) \/ ~InRange(data, 5)
                     \/ payload_len + v1_HEADER_LEN > Len(data))

\* A slip: the checksum is left out of the expected length.
decode_v1_nochecksum(src) ==
    IF Len(src) < v1_MIN_PACKET_LEN THEN None(src, FALSE)
    ELSE LET payload_len == Byte(src, 1)
             expected_len == v1_HEADER_LEN + payload_len
         IN  IF Len(src) < expected_len THEN None(src, ~InRange(src, 1))
             ELSE LET data == SubSeq(src, 1, expected_len)
                      sender == <<Byte(data, 3), Byte(data, 4)>>
                      msg_id == Byte(data, 5)
                      payload == Slice(data, v1_HEADER_LEN, payload_len + v1_HEADER_LEN)
                  IN  Returned(TRUE,
                          Message(RoutingInfo(sender, target_from_payload(msg_id, payload)), data),
                          SubSeq(src, expected_len + 1, Len(src)), 0,
                          \/ ~InRange(src, 1)
                          \/ ~InRange(data, 3) \/ ~InRange(data, 4) \/ ~InRange(data, 5)
                          \/ payload_len + v1_HEADER_LEN > Len(data))

decode_v1(src) ==
    IF Len(src) < v1_MIN_PACKET_LEN THEN None(src, FALSE)
    ELSE LET payload_len == Byte(src, 1)
             expected_len == v1_HEADER_LEN + payload_len + v1_CHECKSUM_LEN
         IN  IF Len(src) < expected_len THEN None(src, ~InRange(src, 1))
             ELSE LET \* src.split_to(expected_len)
                      data == SubSeq(src, 1, expected_len)
                      sender == <<Byte(data, 3), Byte(data, 4)>>
                      msg_id == Byte(data, 5)
                      payload == Slice(data, v1_HEADER_LEN, payload_len + v1_HEADER_LEN)
                  IN  Returned(TRUE,
                          Message(RoutingInfo(sender, target_from_payload(msg_id, payload)), data),
                          SubSeq(src, expected_len + 1, Len(src)), 0,
                          \/ ~InRange(src, 1)
                          \/ ~InRange(data, 3) \/ ~InRange(data, 4) \/ ~InRange(data, 5)
                          \/ payload_len + v1_HEADER_LEN > Len(data))

\* A slip: the signature is left out of the expected length.
decode_v2_nosig(src) ==
    IF Len(src) < v2_MIN_PACKET_LEN THEN None(src, FALSE)
    ELSE LET payload_len == Byte(src, 1)
             expected_len == v2_HEADER_LEN + payload_len + v2_CHECKSUM_LEN
             early == ~InRange(src, 1) \/ ~InRange(src, 2)
         IN  IF Len(src) < expected_len THEN None(src, early)
             ELSE LET data == SubSeq(src, 1, expected_len)
                      sender == <<Byte(data, 5), Byte(data, 6)>>
                      msg_id == Byte(data, 7) + 256 * Byte(data, 8)
                                    + 65536 * Byte(data, 9)
                      payload == Slice(data, v2_HEADER_LEN, payload_len + v2_HEADER_LEN)
                  IN  Returned(TRUE,
                          Message(RoutingInfo(sender, target_from_payload(msg_id, payload)), data),
                          SubSeq(src, expected_len + 1, Len(src)), 0,
                          \/ early
                          \/ \E i \in 5..9 : ~InRange(data, i)
                          \/ payload_len + v2_HEADER_LEN > Len(data))

decode_v2(src) ==
    IF Len(src) < v2_MIN_PACKET_LEN THEN None(src, FALSE)
    ELSE LET payload_len == Byte(src, 1)
             inc_flags == Byte(src, 2)
             expected_len == v2_HEADER_LEN + payload_len + v2_CHECKSUM_LEN
                                + (IF Signed(inc_flags) THEN v2_SIGNATURE_LEN ELSE 0)
             early == ~InRange(src, 1) \/ ~InRange(src, 2)
         IN  IF Len(src) < expected_len THEN None(src, early)
             ELSE LET \* src.split_to(expected_len)
                      data == SubSeq(src, 1, expected_len)
                      sender == <<Byte(data, 5), Byte(data, 6)>>
                      \* u32::from_le_bytes([data[7], data[8], data[9], 0])
                      msg_id == Byte(data, 7) + 256 * Byte(data, 8)
                                    + 65536 * Byte(data, 9)
                      payload == Slice(data, v2_HEADER_LEN, payload_len + v2_HEADER_LEN)
                  IN  Returned(TRUE,
                          Message(RoutingInfo(sender, target_from_payload(msg_id, payload)), data),
                          SubSeq(src, expected_len + 1, Len(src)), 0,
                          \/ early
                          \/ \E i \in 5..9 : ~InRange(data, i)
                          \/ payload_len + v2_HEADER_LEN > Len(data))

\* src.iter().position(|&b| b == v1::PACKET_MAGIC || b == v2::PACKET_MAGIC),
\* counted from 0; Len(src) stands for None.
magic_position(src) ==
    LET found == {i \in 0..(Len(src) - 1) :
                     Byte(src, i) = v1_PACKET_MAGIC \/ Byte(src, i) = v2_PACKET_MAGIC}
    IN  IF found = {} THEN Len(src)
        ELSE CHOOSE i \in found : \A j \in found : i <= j

\* base_decode on a buffer whose first byte is a magic byte.
dispatch(src) ==
    IF Byte(src, 0) = v1_PACKET_MAGIC THEN decode_v1(src) ELSE decode_v2(src)

\* A slip: the scan looks for the v1 magic byte only.
resync_v1only(src) ==
    LET found == {i \in 0..(Len(src) - 1) : Byte(src, i) = v1_PACKET_MAGIC}
        pos == IF found = {} THEN Len(src)
               ELSE CHOOSE i \in found : \A j \in found : i <= j
        r == dispatch(SubSeq(src, pos + 1, Len(src)))
    IN  IF pos < Len(src) /\ r.some THEN [r EXCEPT !.skip = pos]
        ELSE None(<<>>, pos < Len(src) /\ r.panic)

\* position(..).and_then(advance; base_decode).or_else(clear; None): the
\* or_else arm runs whenever and_then gave None, that is also when a magic
\* byte was found and the frame behind it is not complete yet.
resync(src) ==
    LET pos == magic_position(src)
        r == dispatch(SubSeq(src, pos + 1, Len(src)))
    IN  IF pos < Len(src) /\ r.some THEN [r EXCEPT !.skip = pos]
        ELSE None(<<>>, pos < Len(src) /\ r.panic)

base_decode(src) ==
    IF src = <<>> THEN None(src, FALSE)
    ELSE IF Byte(src, 0) = v1_PACKET_MAGIC THEN decode_v1(src)
    ELSE IF Byte(src, 0) = v2_PACKET_MAGIC THEN decode_v2(src)
    ELSE resync(src)

\* Decoder::decode: Ok(self.base_decode(src)), never Err.
decode(src) == [ok |-> TRUE, value |-> base_decode(src)]

\* An encoder that writes the frame over what dst holds.
encode_overwrite(item, dst0) == [ok |-> TRUE, dst |-> item.data]

\* Encoder::encode: dst.extend_from_slice(&item.data); Ok(()).
encode(item, dst0) == [ok |-> TRUE, dst |-> dst0 \o item.data]

(***************************************************************************)
(* The byte streams the codec is run on: prefix ++ frame ++ suffix, where  *)
(* frame is built field by field as section 6 of the specification lays    *)
(* the two frame formats out.                                              *)
(***************************************************************************)
PayloadLens == 0..MaxPayloadLen

\* Payload byte i (from 1) is i: a target read from the payload is (1, 2).
Payload(n) == [i \in 1..n |-> i]

Checksum == <<170, 187>>

Signature == [i \in 1..v2_SIGNATURE_LEN |-> 100 + i]

\* v1: magic, len, seq, sys, comp, msg_id, payload, checksum.
FrameV1(n, msg_id) ==
    <<v1_PACKET_MAGIC, n, 7, 1, 1, msg_id>> \o Payload(n) \o Checksum

\* v2: magic, len, inc_flags, cmp_flags, seq, sys, comp, msg_id (3 bytes,
\* little endian), payload, checksum, signature when inc_flags & 0x01.
FrameV2(n, inc_flags, id0, id1) ==
    <<v2_PACKET_MAGIC, n, inc_flags, 0, 7, 1, 1, id0, id1, 0>>
        \o Payload(n) \o Checksum
        \o (IF inc_flags % 2 = 1 THEN Signature ELSE <<>>)

\* msg_id 21 and 11 are in the offsets table, 0 and 277 = (21, 1, 0) are not;
\* inc_flags 2 and 3 carry a bit besides IFLAG_SIGNED.
Frames ==
    {FrameV1(n, 21) : n \in PayloadLens}
        \cup {FrameV1(MaxPayloadLen, 0), FrameV1(MaxPayloadLen, 11)}
        \cup {FrameV2(n, f, 21, 0) : n \in PayloadLens, f \in {0, 1}}
        \cup {FrameV2(MaxPayloadLen, 2, 21, 1), FrameV2(MaxPayloadLen, 3, 11, 0)}

Prefixes ==
    { <<>>, <<0>>, <<0, 1>>,
      <<254>>, <<254, 1>>, <<253, 0, 1>>,
      <<0, 254>>, <<0, 253, 1>> }

\* Nothing, one stray byte, or the next frame of the stream.
Suffixes == { <<>>, <<171>>, FrameV1(0, 0) }

\* The longest frames: payload_len is a u8.
LongFrames == {FrameV1(255, 21), FrameV2(255, 1, 21, 0)}

\* The signed v2 frame with a payload of 5 bytes.
SignedFrames == {FrameV2(5, 1, 21, 0)}

\* A frame whose payload reaches the target offset of its message (11: 4).
TargetFrames == {FrameV1(5, 11)}

Scenarios ==
    {[prefix |-> p, frame |-> f, suffix |-> x] :
        p \in Prefixes, f \in Frames, x \in Suffixes}
    \cup {[prefix |-> p, frame |-> f, suffix |-> <<>>] :
              p \in {<<>>, <<0>>},
              f \in LongFrames \cup SignedFrames \cup TargetFrames}

Whole(sc) == sc.prefix \o sc.frame \o sc.suffix

NoDecode ==
    [called |-> FALSE, pre |-> <<>>, ok |-> TRUE, some |-> FALSE,
     item |-> NoMessage, post |-> <<>>, at |-> 0, panic |-> FALSE]

NoEncode == [k |-> 0, item |-> NoMessage, before |-> <<>>, ok |-> TRUE]

CdOnly == UNCHANGED <<dbVars, rtVars, lfVars, sideVars>>

\* The codec variables while another specification runs.
CdIdle ==
    /\ scen = [prefix |-> <<>>, frame |-> <<>>, suffix |-> <<>>]
    /\ stream = <<>>
    /\ buf = <<>>
    /\ readable = FALSE
    /\ consumed = 0
    /\ out = <<>>
    /\ last = NoDecode
    /\ dst = <<>>
    /\ lastEnc = NoEncode

\* Codec::new, in front of one of the streams.
CdInit0 ==
    /\ scen \in Scenarios
    /\ stream = Whole(scen)
    /\ buf = <<>>
    /\ readable = FALSE
    /\ consumed = 0
    /\ out = <<>>
    /\ last = NoDecode
    /\ dst = <<>>
    /\ lastEnc = NoEncode

\* The caller of a Decoder calls decode on src until it returns None, and
\* only then reads again: the read appends the next n bytes of the stream to
\* src (n >= 1: a read of 0 bytes is the end of the stream).
CodecArrive(n) ==
    /\ ~readable
    /\ n >= 1 /\ n <= Len(stream)
    /\ readable' = TRUE
    /\ buf' = buf \o SubSeq(stream, 1, n)
    /\ stream' = SubSeq(stream, n + 1, Len(stream))
    /\ UNCHANGED <<scen, consumed, out, last, dst, lastEnc>>
    /\ CdOnly

\* One call of Decoder::decode on src.
CodecDecode ==
    LET res == decode(buf)
        r == res.value
        at == consumed + r.skip
    IN  /\ readable
        /\ readable' = r.some
        /\ buf' = r.src
        /\ consumed' = consumed + (Len(buf) - Len(r.src))
        /\ out' = IF r.some
                  THEN Append(out, [routing_info |-> r.item.routing_info,
                                    data |-> r.item.data, pre |-> buf, at |-> at])
                  ELSE out
        /\ last' = [called |-> TRUE, pre |-> buf, ok |-> res.ok, some |-> r.some,
                    item |-> r.item, post |-> r.src, at |-> at, panic |-> r.panic]
        /\ UNCHANGED <<scen, stream, dst, lastEnc>>
        /\ CdOnly

\* One call of Encoder::encode, on the k-th Message decode returned (the
\* run encodes them in the order decode returned them, not necessarily all).
CodecEncode(k) ==
    LET item == Message(out[k].routing_info, out[k].data)
        res == encode(item, dst)
    IN  /\ k \in 1..Len(out)
        /\ lastEnc.k < k
        /\ dst' = res.dst
        /\ lastEnc' = [k |-> k, item |-> item, before |-> dst, ok |-> res.ok]
        /\ UNCHANGED <<scen, stream, buf, readable, consumed, out, last>>
        /\ CdOnly

(***************************************************************************)
(* The endpoints and the routing plane (Spec).  Every endpoint runs a      *)
(* receiver task (endpoint/receiver.rs) and a sender task                  *)
(* (endpoint/sender.rs) that share its TargetDatabase; the receivers       *)
(* publish to one broadcast channel to which every sender is subscribed.   *)
(***************************************************************************)
Endpoints == {"A", "B"}

S == <<1, 1>>

T == <<1, 2>>

Frame(e, addr, sender, target) ==
    [ep |-> e, addr |-> addr, routing_info |-> RoutingInfo(sender, target)]

\* The datagrams the endpoints receive: the endpoint, the source address and
\* the routing info the frame decodes to.  S and T are two components of
\* system 1; T is seen behind PA on A (beside S), and behind PB and then PC
\* on B; <<0, 1>> is no valid sender.
Datagrams ==
    { Frame("A", "PA", S, T),
      Frame("A", "PA", T, <<0, 0>>),
      Frame("B", "PB", T, <<0, 0>>),
      Frame("B", "PC", T, S),
      Frame("B", "PB", <<0, 1>>, <<1, 0>>) }

FrameIds == 1..MaxFrames

\* A step of the routing plane touches no variable of the other groups.
RtOnly == UNCHANGED <<dbVars, cdVars, lfVars, sideVars>>

\* The holders of a producer handle: the receiver task of every endpoint and
\* the code that assembled the pipeline.
Producers == Endpoints \cup {"main"}

\* Every task running, every channel end in place, the default capacity.
LfIdle ==
    /\ cap = ChannelCap
    /\ plane = "up"
    /\ producers = Producers
    /\ spc = [e \in Endpoints |-> "running"]
    /\ logged = [e \in Endpoints |-> <<>>]
    /\ rerrs = [e \in Endpoints |-> 0]

RtInit ==
    /\ db = [e \in Endpoints |-> <<>>]
    /\ hist = <<>>
    /\ rpc = [e \in Endpoints |-> "recv"]
    /\ rmsg = [e \in Endpoints |-> 0]
    /\ queue = [e \in Endpoints |-> <<>>]
    /\ lagged = [e \in Endpoints |-> 0]
    /\ sent = [e \in Endpoints |-> <<>>]

\* A recv that returns the frame and learns nothing.
ReceiverRecv_unlearned(e, msg) ==
    /\ rpc[e] = "recv"
    /\ msg.ep = e
    /\ Len(hist) < MaxFrames
    /\ hist' = Append(hist, msg)
    /\ rmsg' = [rmsg EXCEPT ![e] = Len(hist) + 1]
    /\ rpc' = [rpc EXCEPT ![e] = "publish"]
    /\ UNCHANGED <<db, queue, lagged, sent>>
    /\ RtOnly

\* Receiver::recv: a datagram from addr decodes to a frame with this routing
\* info; a valid sender is learned, any other is logged; the frame is
\* returned to run() either way.
ReceiverRecv(e, msg) ==
    /\ rpc[e] = "recv"
    /\ msg.ep = e
    /\ Len(hist) < MaxFrames
    /\ hist' = Append(hist, msg)
    /\ db' = IF is_valid_sender(msg.routing_info.sender)
             THEN [db EXCEPT ![e] = insert_or_update(db[e],
                                        msg.routing_info.sender, msg.addr)]
             ELSE db
    /\ rmsg' = [rmsg EXCEPT ![e] = Len(hist) + 1]
    /\ rpc' = [rpc EXCEPT ![e] = "publish"]
    /\ UNCHANGED <<queue, lagged, sent>>
    /\ RtOnly

\* A channel that hands the newest value out first.
broadcast_queue_lifo(q, k) ==
    IF Len(q) >= cap THEN <<k>> \o Tail(q) ELSE <<k>> \o q

\* broadcast send: the value is stored for every subscription; one that
\* already holds cap unread values loses its oldest.
broadcast_queue(q, k) ==
    IF Len(q) >= cap THEN Append(Tail(q), k) ELSE Append(q, k)

broadcast_lagged(q, n) ==
    IF Len(q) >= cap THEN n + 1 ELSE n

\* A routing plane that hands a frame to the other endpoints only.
ReceiverPublish_others(e) ==
    /\ rpc[e] = "publish"
    /\ plane = "up"
    /\ queue' = [s \in Endpoints |->
                    IF s = e THEN queue[s]
                    ELSE broadcast_queue(queue[s], rmsg[e])]
    /\ lagged' = [s \in Endpoints |->
                    IF s = e THEN lagged[s]
                    ELSE broadcast_lagged(queue[s], lagged[s])]
    /\ rmsg' = [rmsg EXCEPT ![e] = 0]
    /\ rpc' = [rpc EXCEPT ![e] = "recv"]
    /\ UNCHANGED <<db, hist, sent>>
    /\ RtOnly

\* Receiver::run, the send succeeds: the frame recv() returned is published
\* to the routing plane and the loop goes back to recv().
ReceiverPublish(e) ==
    /\ rpc[e] = "publish"
    /\ plane = "up"
    /\ queue' = [s \in Endpoints |-> broadcast_queue(queue[s], rmsg[e])]
    /\ lagged' = [s \in Endpoints |-> broadcast_lagged(queue[s], lagged[s])]
    /\ rmsg' = [rmsg EXCEPT ![e] = 0]
    /\ rpc' = [rpc EXCEPT ![e] = "recv"]
    /\ UNCHANGED <<db, hist, sent>>
    /\ RtOnly

\* Sender::run, Err(_) => break: a loop that leaves on any error of the
\* subscription, the lag with the rest.
SenderLagged_break(e) ==
    /\ spc[e] = "running"
    /\ lagged[e] > 0
    /\ lagged' = [lagged EXCEPT ![e] = 0]
    /\ spc' = [spc EXCEPT ![e] = "stopped"]
    /\ UNCHANGED <<db, hist, rpc, rmsg, queue, sent>>
    /\ UNCHANGED <<cap, plane, producers, logged, rerrs>>
    /\ UNCHANGED <<dbVars, cdVars, sideVars>>

\* Sender::run, Err(RecvError::Lagged(nr)): the count is logged and the loop
\* goes on; the subscription resumes at the oldest frame it still holds.  A
\* subscription lags only once more than cap frames are unread: never
\* within MaxFrames frames under the default capacity, so Spec has no such
\* step.
SenderLagged(e) ==
    /\ spc[e] = "running"
    /\ lagged[e] > 0
    /\ logged' = [logged EXCEPT ![e] = Append(logged[e], lagged[e])]
    /\ lagged' = [lagged EXCEPT ![e] = 0]
    /\ UNCHANGED <<db, hist, rpc, rmsg, queue, sent>>
    /\ UNCHANGED <<cap, plane, producers, spc, rerrs>>
    /\ UNCHANGED <<dbVars, cdVars, sideVars>>

\* Sender::run, Err(RecvError::Closed) => break: the subscription reports
\* Closed once no producer handle is left and it has read every frame that
\* was published; the task leaves its loop.
SenderClosed(e) ==
    /\ spc[e] = "running"
    /\ lagged[e] = 0
    /\ queue[e] = <<>>
    /\ producers = {}
    /\ spc' = [spc EXCEPT ![e] = "stopped"]
    /\ UNCHANGED rtVars
    /\ UNCHANGED <<cap, plane, producers, logged, rerrs>>
    /\ UNCHANGED <<dbVars, cdVars, sideVars>>

\* Sender::send: the addresses are collected from the database in one
\* lookup; the for loop feeds the frame to the sink once per address, and
\* `?` leaves the loop at the first feed that fails; nfed feeds succeed.
\* ok: no feed failed (what the sink does with a fed frame is the transport's).
send(e, k, nfed) ==
    LET addrs == get_target_addresses(db[e], hist[k].routing_info)
    IN  [frame |-> k,
         fed |-> SubSeq(addrs, 1, nfed),
         ok |-> nfed = Len(addrs),
         looked |-> db[e]]

\* Sender::run, Ok(msg): the frame is sent, an error of send() is logged,
\* and the loop goes on.
SenderRecv(e, nfed) ==
    /\ spc[e] = "running"
    /\ lagged[e] = 0
    /\ queue[e] # <<>>
    /\ nfed <= Len(get_target_addresses(db[e],
                                        hist[Head(queue[e])].routing_info))
    /\ sent' = [sent EXCEPT ![e] = Append(sent[e], send(e, Head(queue[e]), nfed))]
    /\ queue' = [queue EXCEPT ![e] = Tail(queue[e])]
    /\ UNCHANGED <<db, hist, rpc, rmsg, lagged>>
    /\ RtOnly

SenderStep(e) == \E nfed \in 0..Len(db[e]) : SenderRecv(e, nfed)

\* Receiver::run with `?` on recv(): a loop that an error of recv() leaves.
ReceiverRecvError_return(e) ==
    /\ rpc[e] = "recv"
    /\ rerrs[e] < MaxErrors
    /\ rerrs' = [rerrs EXCEPT ![e] = rerrs[e] + 1]
    /\ rpc' = [rpc EXCEPT ![e] = "stopped"]
    /\ producers' = producers \ {e}
    /\ UNCHANGED <<db, hist, rmsg, queue, lagged, sent>>
    /\ UNCHANGED <<cap, plane, spc, logged>>
    /\ UNCHANGED <<dbVars, cdVars, sideVars>>

\* Receiver::recv returns Err: the transport reports an error for one
\* datagram (ReceiverError::Receive) or the datagram does not decode
\* (ReceiverError::Deserialization); nothing is learned, run() logs the
\* error, publishes nothing and goes back to recv().
ReceiverRecvError(e) ==
    /\ rpc[e] = "recv"
    /\ rerrs[e] < MaxErrors
    /\ rerrs' = [rerrs EXCEPT ![e] = rerrs[e] + 1]
    /\ UNCHANGED rtVars
    /\ UNCHANGED <<cap, plane, producers, spc, logged>>
    /\ UNCHANGED <<dbVars, cdVars, sideVars>>

\* Receiver::run, the send fails (ReceiverError::SendToRouter): the far end
\* of the channel is gone; the error is logged and run() returns, which
\* drops the task's producer handle with the Receiver.
ReceiverRouterGone(e) ==
    /\ rpc[e] = "publish"
    /\ plane = "gone"
    /\ rmsg' = [rmsg EXCEPT ![e] = 0]
    /\ rpc' = [rpc EXCEPT ![e] = "stopped"]
    /\ producers' = producers \ {e}
    /\ UNCHANGED <<db, hist, queue, lagged, sent>>
    /\ UNCHANGED <<cap, plane, spc, logged, rerrs>>
    /\ UNCHANGED <<dbVars, cdVars, sideVars>>

\* The far end of the receivers' channel is dropped: the routing plane is
\* gone from then on.
PlaneGone ==
    /\ plane = "up"
    /\ plane' = "gone"
    /\ UNCHANGED rtVars
    /\ UNCHANGED <<cap, producers, spc, logged, rerrs>>
    /\ UNCHANGED <<dbVars, cdVars, sideVars>>

\* A holder of a producer handle goes away at shutdown: the code that
\* assembled the pipeline drops the handle it kept, or the runtime drops a
\* receiver task where it waits, and the frame it held with it.
ProducerDrop(p) ==
    /\ p \in producers
    /\ producers' = producers \ {p}
    /\ rpc' = [e \in Endpoints |-> IF e = p THEN "dropped" ELSE rpc[e]]
    /\ rmsg' = [e \in Endpoints |-> IF e = p THEN 0 ELSE rmsg[e]]
    /\ UNCHANGED <<db, hist, queue, lagged, sent>>
    /\ UNCHANGED <<cap, plane, spc, logged, rerrs>>
    /\ UNCHANGED <<dbVars, cdVars, sideVars>>

ReceiverStep(e) ==
    \/ \E msg \in Datagrams : ReceiverRecv(e, msg)
    \/ ReceiverPublish(e)

RtNext ==
    \/ \E e \in Endpoints : ReceiverStep(e)
    \/ \E e \in Endpoints : SenderStep(e)

(***************************************************************************)
(* SpecDb: one TargetDatabase, called as the unit tests of                 *)
(* target_database.rs call it, and SysCompId::matches applied to a pair.   *)
(***************************************************************************)
\* The SysCompIds inserted into the database of SpecDb.
DbIds == {<<1, 1>>, <<1, 2>>, <<2, 1>>}

\* The peer addresses inserted into the database of SpecDb.
DbAddrs == {"a1", "a2"}

NoCall ==
    [op |-> "none", a |-> <<0, 0>>, b |-> <<0, 0>>, addr |-> "a1",
     before |-> <<>>, res |-> <<>>]

DbInit0 ==
    /\ targets = <<>>
    /\ firstSeen = <<>>
    /\ call = NoCall

\* A call on the database of SpecDb touches no variable of the other groups.
DbOnly == UNCHANGED <<rtVars, cdVars, lfVars, sideVars>>

\* The driver makes one query between two updates of the database: a query
\* changes nothing, so a second one in a row reaches no new database.
Quiet == call.op \in {"none", "insert"}

\* db.insert_or_update(sender, addr)
DbInsertOrUpdate(sender, addr) ==
    /\ targets' = insert_or_update(targets, sender, addr)
    /\ firstSeen' = IF \E i \in 1..Len(firstSeen) : firstSeen[i] = sender
                    THEN firstSeen
                    ELSE Append(firstSeen, sender)
    /\ call' = [op |-> "insert", a |-> sender, b |-> <<0, 0>>, addr |-> addr,
                before |-> targets, res |-> <<>>]
    /\ DbOnly

\* db.get_target_addresses(&RoutingInfo { sender, target })
DbGetTargetAddresses(sender, target) ==
    /\ Quiet
    /\ call' = [op |-> "lookup", a |-> sender, b |-> target, addr |-> "a1",
                before |-> <<>>,
                res |-> get_target_addresses(targets, RoutingInfo(sender, target))]
    /\ UNCHANGED <<targets, firstSeen>>
    /\ DbOnly

\* self.matches(other)
DbMatches(self, other) ==
    /\ Quiet
    /\ call' = [op |-> "matches", a |-> self, b |-> other, addr |-> "a1",
                before |-> <<>>, res |-> <<matches(self, other)>>]
    /\ UNCHANGED <<targets, firstSeen>>
    /\ DbOnly

DbNext ==
    \/ \E sender \in DbIds, addr \in DbAddrs : DbInsertOrUpdate(sender, addr)
    \/ \E sender \in SysCompIds, target \in SysCompIds :
            DbGetTargetAddresses(sender, target)
    \/ \E self \in SysCompIds, other \in SysCompIds : DbMatches(self, other)

DbInit == DbInit0 /\ RtInit /\ CdIdle /\ LfIdle /\ SideIdle

SpecDb == DbInit /\ [][DbNext]_vars

Init == RtInit /\ DbInit0 /\ CdIdle /\ LfIdle /\ SideIdle

Next == RtNext

Spec == Init /\ [][Next]_vars

\* The runtime polls every task that can make progress: a sender task whose
\* subscription holds a frame or whose sink is ready, and a receiver task
\* that holds a frame to publish.
Fairness ==
    /\ \A e \in Endpoints : WF_vars(SenderStep(e))
    /\ \A e \in Endpoints : WF_vars(ReceiverPublish(e))

SpecFair == Spec /\ Fairness

(***************************************************************************)
(* SpecSenderLife, SpecReceiverLife: the tasks of two endpoints from start *)
(* to stop, over a fan-out channel of a small configured capacity.  In the *)
(* first the holders of the producer handles go away under the sender      *)
(* tasks; in the second datagrams fail and the routing plane goes away     *)
(* under the receiver tasks.                                               *)
(***************************************************************************)
\* The datagrams the receivers are given.
LifeDatagrams ==
    {Frame("A", "PA", S, T), Frame("B", "PB", T, <<0, 0>>)}

LifeInit ==
    /\ RtInit
    /\ DbInit0
    /\ CdIdle
    /\ SideIdle
    /\ cap \in 1..MaxCap
    /\ plane = "up"
    /\ producers = Producers
    /\ spc = [e \in Endpoints |-> "running"]
    /\ logged = [e \in Endpoints |-> <<>>]
    /\ rerrs = [e \in Endpoints |-> 0]

SenderLifeNext ==
    \/ \E e \in Endpoints, msg \in LifeDatagrams : ReceiverRecv(e, msg)
    \/ \E e \in Endpoints : ReceiverPublish(e)
    \/ \E e \in Endpoints : SenderStep(e)
    \/ \E e \in Endpoints : SenderLagged(e)
    \/ \E e \in Endpoints : SenderClosed(e)
    \/ \E p \in Producers : ProducerDrop(p)

\* The runtime polls a sender task whose subscription has a frame, a lag or
\* Closed to report.
SenderLifeFairness ==
    /\ \A e \in Endpoints : WF_vars(SenderStep(e))
    /\ \A e \in Endpoints : WF_vars(SenderLagged(e))
    /\ \A e \in Endpoints : WF_vars(SenderClosed(e))

SpecSenderLife == LifeInit /\ [][SenderLifeNext]_vars /\ SenderLifeFairness

ReceiverLifeNext ==
    \/ \E e \in Endpoints, msg \in LifeDatagrams : ReceiverRecv(e, msg)
    \/ \E e \in Endpoints : ReceiverRecvError(e)
    \/ \E e \in Endpoints : ReceiverPublish(e)
    \/ \E e \in Endpoints : ReceiverRouterGone(e)
    \/ \E e \in Endpoints : SenderStep(e)
    \/ PlaneGone

\* The runtime polls a receiver task that holds a frame: the send to the
\* routing plane succeeds or fails, it does not wait.
ReceiverLifeFairness ==
    /\ \A e \in Endpoints : WF_vars(ReceiverPublish(e))
    /\ \A e \in Endpoints : WF_vars(ReceiverRouterGone(e))

SpecReceiverLife ==
    LifeInit /\ [][ReceiverLifeNext]_vars /\ ReceiverLifeFairness

(***************************************************************************)
(* SpecRouter: the receivers send their frames to the Router over one      *)
(* bounded channel; start_routing takes them one at a time, learns the     *)
(* sender's endpoint and sends the frame over a bounded channel to the     *)
(* sender task of every endpoint a matching target was seen on.            *)
(***************************************************************************)
\* RoutingTable::insert_or_update: the entry of sender is pointed at the
\* endpoint the frame came in on, or pushed.
RoutingTable_insert_or_update(t, endpoint_id, sender) ==
    IF \E i \in 1..Len(t) : t[i][1] = sender
    THEN [i \in 1..Len(t) |->
            IF i = CHOOSE j \in 1..Len(t) :
                      /\ t[j][1] = sender
                      /\ \A h \in 1..(j - 1) : t[h][1] # sender
            THEN <<sender, endpoint_id>> ELSE t[i]]
    ELSE Append(t, <<sender, endpoint_id>>)

RECURSIVE get_target_senders(_, _)
\* RoutingTable::get_target_senders: the endpoint of every entry the routing
\* info matches, in the order of the table.
get_target_senders(t, routing_info) ==
    IF t = <<>> THEN <<>>
    ELSE (IF RoutingInfo_matches(routing_info, Head(t)[1])
          THEN <<Head(t)[2]>> ELSE <<>>)
         \o get_target_senders(Tail(t), routing_info)

\* Receiver::run, router_tx.send(..).await: the frame recv() returned goes
\* into the Router's channel once the channel has room; until then the
\* task waits in send.
ReceiverSend(e) ==
    /\ rpc[e] = "publish"
    /\ plane = "up"
    /\ Len(msgs) < cap
    /\ msgs' = Append(msgs, rmsg[e])
    /\ rmsg' = [rmsg EXCEPT ![e] = 0]
    /\ rpc' = [rpc EXCEPT ![e] = "recv"]
    /\ UNCHANGED <<db, hist, queue, lagged, sent, routing, table>>
    /\ UNCHANGED <<dbVars, cdVars, lfVars, dsVars, mpVars, xpVars, ccVars>>

\* Router::start_routing, msg_rx.recv(): the next frame is taken, its sender
\* is recorded with the endpoint it came in on, and the senders to forward
\* it to are looked up.
RouterRecv ==
    /\ routing.msg = 0
    /\ msgs # <<>>
    /\ LET k == Head(msgs)
           t == RoutingTable_insert_or_update(table, hist[k].ep,
                                              hist[k].routing_info.sender)
           todo == get_target_senders(t, hist[k].routing_info)
       IN  /\ table' = t
           /\ routing' = [msg |-> IF todo = <<>> THEN 0 ELSE k, todo |-> todo]
    /\ msgs' = Tail(msgs)
    /\ UNCHANGED rtVars
    /\ UNCHANGED <<dbVars, cdVars, lfVars, dsVars, mpVars, xpVars, ccVars>>

\* Router::start_routing, tx.send(..).await in the for loop: the frame goes
\* into the channel of the next sender once that channel has room; until
\* then start_routing waits in send and takes no other frame.
RouterSend ==
    /\ routing.todo # <<>>
    /\ LET e == Head(routing.todo)
       IN  /\ Len(queue[e]) < EndpointCap
           /\ queue' = [queue EXCEPT ![e] = Append(queue[e], routing.msg)]
    /\ routing' = [msg |-> IF Tail(routing.todo) = <<>> THEN 0
                           ELSE routing.msg,
                   todo |-> Tail(routing.todo)]
    /\ UNCHANGED <<db, hist, rpc, rmsg, lagged, sent, msgs, table>>
    /\ UNCHANGED <<dbVars, cdVars, lfVars, dsVars, mpVars, xpVars, ccVars>>

RouterInit ==
    /\ RtInit
    /\ DbInit0
    /\ CdIdle
    /\ cap \in 1..MaxCap
    /\ plane = "up"
    /\ producers = Producers
    /\ spc = [e \in Endpoints |-> "running"]
    /\ logged = [e \in Endpoints |-> <<>>]
    /\ rerrs = [e \in Endpoints |-> 0]
    /\ SideIdle

RouterNext ==
    \/ \E e \in Endpoints, msg \in Datagrams : ReceiverRecv(e, msg)
    \/ \E e \in Endpoints : ReceiverSend(e)
    \/ RouterRecv
    \/ RouterSend
    \/ \E e \in Endpoints : SenderStep(e)

SpecRouter == RouterInit /\ [][RouterNext]_vars

(***************************************************************************)
(* SpecDeserializer: one datagram given to Deserializer::deserialize, in   *)
(* the variant of mavlink/deserializer.rs (v1 and v2, lengths checked) and *)
(* in the variant of mavlink.rs (v2 only, given a slice as Receiver::recv   *)
(* gives one).  A result is Ok(Message), Err(error) or a panic, where a    *)
(* slice or an index runs past the datagram.                               *)
(***************************************************************************)
mavlink_rs_MIN_PACKET_LEN == 12

mavlink_rs_MAX_PACKET_LEN == 280

mavlink_rs_PACKET_MAGIC == 253

mavlink_rs_HEADER_LEN == 10

DeserOk(routing_info, data) ==
    [kind |-> "ok", msg |-> Message(routing_info, data), err |-> "none"]

DeserErr(e) == [kind |-> "err", msg |-> NoMessage, err |-> e]

DeserPanic == [kind |-> "panic", msg |-> NoMessage, err |-> "none"]

\* Deserializer::deserialize_v1 of mavlink/deserializer.rs.
deserialize_v1(msg) ==
    IF Len(msg) < v1_MIN_PACKET_LEN THEN DeserErr("TooShort")
    ELSE LET payload_len == Byte(msg, 1)
             expected_len == v1_HEADER_LEN + payload_len + v1_CHECKSUM_LEN
         IN  IF Len(msg) # expected_len THEN DeserErr("InvalidLength")
             ELSE IF ~InRange(msg, 5) \/ payload_len + v1_HEADER_LEN > Len(msg)
             THEN DeserPanic
             ELSE DeserOk(
                    RoutingInfo(<<Byte(msg, 3), Byte(msg, 4)>>,
                        target_from_payload(Byte(msg, 5),
                            Slice(msg, v1_HEADER_LEN,
                                  payload_len + v1_HEADER_LEN))),
                    msg)

\* Deserializer::deserialize_v2 of mavlink/deserializer.rs.
deserialize_v2(msg) ==
    IF Len(msg) < v2_MIN_PACKET_LEN THEN DeserErr("TooShort")
    ELSE LET payload_len == Byte(msg, 1)
             expected_len ==
                 v2_HEADER_LEN + payload_len + v2_CHECKSUM_LEN
                     + (IF Signed(Byte(msg, 2)) THEN v2_SIGNATURE_LEN ELSE 0)
         IN  IF Len(msg) # expected_len THEN DeserErr("InvalidLength")
             ELSE IF ~InRange(msg, 9) \/ payload_len + v2_HEADER_LEN > Len(msg)
             THEN DeserPanic
             ELSE DeserOk(
                    RoutingInfo(<<Byte(msg, 5), Byte(msg, 6)>>,
                        target_from_payload(
                            Byte(msg, 7) + 256 * Byte(msg, 8)
                                + 65536 * Byte(msg, 9),
                            Slice(msg, v2_HEADER_LEN,
                                  payload_len + v2_HEADER_LEN))),
                    msg)

\* Deserializer::deserialize of mavlink/deserializer.rs.
deserialize(msg) ==
    IF msg = <<>> THEN DeserErr("TooShort")
    ELSE IF msg[1] = v1_PACKET_MAGIC THEN deserialize_v1(msg)
    ELSE IF msg[1] = v2_PACKET_MAGIC THEN deserialize_v2(msg)
    ELSE DeserErr("InvalidMagic")

\* Deserializer::deserialize of mavlink.rs: the length is checked against
\* the bounds of a packet, not against the payload length the packet
\* declares, and &msg[HEADER_LEN..payload_len + HEADER_LEN] panics when the
\* declared payload runs past the datagram.
mavlink_rs_deserialize(msg) ==
    IF Len(msg) < mavlink_rs_MIN_PACKET_LEN THEN DeserErr("TooShort")
    ELSE IF Len(msg) > mavlink_rs_MAX_PACKET_LEN THEN DeserErr("TooLong")
    ELSE IF msg[1] # mavlink_rs_PACKET_MAGIC THEN DeserErr("InvalidMagic")
    ELSE LET payload_len == Byte(msg, 1)
         IN  IF payload_len + mavlink_rs_HEADER_LEN > Len(msg) THEN DeserPanic
             ELSE DeserOk(
                    RoutingInfo(<<Byte(msg, 5), Byte(msg, 6)>>,
                        target_from_payload(
                            Byte(msg, 7) + 256 * Byte(msg, 8)
                                + 65536 * Byte(msg, 9),
                            Slice(msg, mavlink_rs_HEADER_LEN,
                                  payload_len + mavlink_rs_HEADER_LEN))),
                    msg)

\* The first ten bytes of a datagram: a magic, the declared payload length,
\* the incompatibility flags, and ids that read as a sender and a message
\* id under either version.
DgramHead(magic, payload_len, inc_flags) ==
    <<magic, payload_len, inc_flags, 1, 1, 21, 1, 21, 0, 0>>

\* A datagram of n bytes that starts with (a prefix of) head.
Dgram(head, n) == [i \in 1..n |-> IF i <= Len(head) THEN head[i] ELSE 1]

\* The declared payload lengths: none, a few bytes, the largest.
DgramPayloadLens == 0..4 \cup {255}

\* The lengths of the datagrams: short ones, a v2 frame with the largest
\* payload, the largest packet and one byte more.
DgramLens == 0..MaxDgramLen \cup {267, 280, 281}

Dgrams ==
    {Dgram(DgramHead(magic, pl, f), n) :
        magic \in {254, 253, 0}, pl \in DgramPayloadLens, f \in {0, 1},
        n \in DgramLens}

DsOnly ==
    UNCHANGED <<dbVars, rtVars, cdVars, lfVars, rpVars, mpVars, xpVars, ccVars>>

DeserializerInit ==
    /\ dgram \in Dgrams
    /\ deser = [called |-> FALSE]
    /\ RtInit /\ DbInit0 /\ CdIdle /\ LfIdle
    /\ RpIdle /\ MpIdle /\ XpIdle /\ CcIdle

\* Receiver::recv hands the datagram to deserialize of mavlink/deserializer.rs.
Deserialize ==
    /\ ~deser.called
    /\ deser' = [called |-> TRUE, by |-> "mavlink/deserializer.rs",
                 res |-> deserialize(dgram)]
    /\ UNCHANGED dgram
    /\ DsOnly

\* Receiver::recv hands the datagram to deserialize of mavlink.rs.
DeserializeMavlinkRs ==
    /\ ~deser.called
    /\ deser' = [called |-> TRUE, by |-> "mavlink.rs",
                 res |-> mavlink_rs_deserialize(dgram)]
    /\ UNCHANGED dgram
    /\ DsOnly

DeserializerNext == Deserialize \/ DeserializeMavlinkRs

SpecDeserializer == DeserializerInit /\ [][DeserializerNext]_vars

(***************************************************************************)
(* SpecMsgParser: try_get_offsets_from_msg reads one message definition,   *)
(* event by event: a field, an <extensions/> marker, the closing tag.  A   *)
(* field is [name, kind, multiplicity]; an Option is a sequence of at most *)
(* one element; a Result is [kind: "ok" | "err", offsets, err].            *)
(***************************************************************************)
\* MessageFieldKind::size.
size(kind) ==
    CASE kind \in {"Char", "U8", "I8"} -> 1
      [] kind \in {"U16", "I16"} -> 2
      [] kind \in {"U32", "I32", "F32"} -> 4
      [] kind \in {"U64", "I64", "F64"} -> 8

MessageField(name, kind, multiplicity) ==
    [name |-> name, kind |-> kind, multiplicity |-> multiplicity]

\* MessageField::size.
MessageField_size(f) == size(f.kind) * f.multiplicity

MsgParser(fields, ext, targeted) ==
    [msg_fields |-> fields, extensions_start_idx |-> ext,
     is_targeted_msg |-> targeted]

\* MsgParser::new.
MsgParser_new == MsgParser(<<>>, -1, FALSE)

MsgOk(offsets) == [kind |-> "ok", offsets |-> offsets, err |-> "none"]

MsgErr(e) == [kind |-> "err", offsets |-> <<>>, err |-> e]

Offsets(system_id, component_id) ==
    [system_id |-> system_id, component_id |-> component_id]

\* MsgParser::record_extension_start: [err, parser].
record_extension_start(parser) ==
    IF parser.extensions_start_idx # -1
    THEN [err |-> "MultipleExtensionsFields", parser |-> parser]
    ELSE [err |-> "none",
          parser |-> [parser EXCEPT
                        !.extensions_start_idx = Len(parser.msg_fields)]]

\* A parse_msg_field that takes a target field of any type and multiplicity.
parse_msg_field_unchecked(parser, msg_field) ==
    [err |-> "none",
     parser |-> [parser EXCEPT
                   !.is_targeted_msg =
                       @ \/ msg_field.name \in {"target_system",
                                                "target_component"},
                   !.msg_fields = Append(@, msg_field)]]

\* MsgParser::parse_msg_field: [err, parser].
parse_msg_field(parser, msg_field) ==
    IF msg_field.name \in {"target_system", "target_component"}
    THEN IF msg_field.kind # "U8"
         THEN [err |-> "TargetFieldNotU8", parser |-> parser]
         ELSE IF msg_field.multiplicity # 1
         THEN [err |-> "TargetFieldNotSingleValue", parser |-> parser]
         ELSE [err |-> "none",
               parser |-> [parser EXCEPT
                             !.is_targeted_msg = TRUE,
                             !.msg_fields = Append(@, msg_field)]]
    ELSE [err |-> "none",
          parser |-> [parser EXCEPT !.msg_fields = Append(@, msg_field)]]

\* The fields left as they were declared.
sort_by_none(fields) == fields

\* A sort by the size of the whole field, arrays included.
sort_by_total(fields) ==
    LET totals == {MessageField_size(fields[i]) : i \in 1..Len(fields)}
        RECURSIVE from(_)
        from(left) ==
            IF left = {} THEN <<>>
            ELSE LET t == CHOOSE x \in left : \A y \in left : y <= x
                 IN  SelectSeq(fields, LAMBDA f : MessageField_size(f) = t)
                         \o from(left \ {t})
    IN  from(totals)

\* fields_to_sort.sort_by(|a, b| b.kind.size().cmp(&a.kind.size())): a
\* stable sort, descending in the size of the kind; fields of one size keep
\* their order.
sort_by(fields) ==
    SelectSeq(fields, LAMBDA f : size(f.kind) = 8)
        \o SelectSeq(fields, LAMBDA f : size(f.kind) = 4)
        \o SelectSeq(fields, LAMBDA f : size(f.kind) = 2)
        \o SelectSeq(fields, LAMBDA f : size(f.kind) = 1)

RECURSIVE fold_size(_)
\* The sum of the sizes of the fields.
fold_size(fields) ==
    IF fields = <<>> THEN 0
    ELSE MessageField_size(Head(fields)) + fold_size(Tail(fields))

\* What the fold leaves in system_offset or component_offset: the offset of
\* the last field of that name, as an Option.
offset_of(fields, name) ==
    LET at == {i \in 1..Len(fields) : fields[i].name = name}
    IN  IF at = {} THEN <<>>
        ELSE LET i == CHOOSE x \in at : \A y \in at : y <= x
             IN  <<fold_size(SubSeq(fields, 1, i - 1))>>

\* The fields as compute_offsets lays them out: the base fields sorted, the
\* extension fields behind them as declared.
layout(parser) ==
    LET num_fields == Len(parser.msg_fields)
        k == IF parser.extensions_start_idx = -1 THEN num_fields
             ELSE parser.extensions_start_idx
    IN  sort_by(SubSeq(parser.msg_fields, 1, k))
            \o SubSeq(parser.msg_fields, k + 1, num_fields)

\* A compute_offsets that takes a message without target_system for one
\* that is not targeted.
compute_offsets_lenient(parser) ==
    LET system_offset == offset_of(layout(parser), "target_system")
        component_offset == offset_of(layout(parser), "target_component")
    IN  IF ~parser.is_targeted_msg \/ system_offset = <<>> THEN MsgOk(<<>>)
        ELSE MsgOk(<<Offsets(system_offset[1], component_offset)>>)

\* MsgParser::compute_offsets.
compute_offsets(parser) ==
    IF ~parser.is_targeted_msg THEN MsgOk(<<>>)
    ELSE LET system_offset == offset_of(layout(parser), "target_system")
             component_offset == offset_of(layout(parser), "target_component")
         IN  IF system_offset # <<>>
             THEN MsgOk(<<Offsets(system_offset[1], component_offset)>>)
             ELSE IF component_offset # <<>> THEN MsgErr("MissingTargetSystem")
             ELSE MsgOk(<<>>)

RECURSIVE read_events(_, _)
\* try_get_offsets_from_msg as a function of the events of the definition.
read_events(parser, events) ==
    IF events = <<>> THEN compute_offsets(parser)
    ELSE IF Head(events).ev = "extensions"
    THEN LET r == record_extension_start(parser)
         IN  IF r.err # "none" THEN MsgErr(r.err)
             ELSE read_events(r.parser, Tail(events))
    ELSE LET r == parse_msg_field(parser, Head(events).field)
         IN  IF r.err # "none" THEN MsgErr(r.err)
             ELSE read_events(r.parser, Tail(events))

try_get_offsets_from_msg(events) == read_events(MsgParser_new, events)

\* The events of a definition: a field, or the <extensions/> marker.
FieldEvent(f) == [ev |-> "field", field |-> f]

ExtensionsEvent ==
    [ev |-> "extensions", field |-> MessageField("", "U8", 1)]

\* The fields the definitions are written with: the two target fields, a
\* target_system of the wrong type, a target_component that is an array,
\* arrays of bytes, a u16 and a byte.
DeclFields ==
    { MessageField("target_system", "U8", 1),
      MessageField("target_component", "U8", 1),
      MessageField("target_system", "U16", 1),
      MessageField("target_component", "U8", 2),
      MessageField("a", "U8", 3),
      MessageField("b", "U8", 2),
      MessageField("c", "U16", 1),
      MessageField("d", "U8", 1) }

DeclEvents == {FieldEvent(f) : f \in DeclFields} \cup {ExtensionsEvent}

\* The definitions: at most MaxFields events, no field twice, at most two
\* markers, those next to each other.
Decls ==
    {d \in UNION {[1..n -> DeclEvents] : n \in 0..MaxFields} :
        /\ \A i, j \in 1..Len(d) :
             (i < j /\ d[i] = d[j]) => (d[i] = ExtensionsEvent /\ j = i + 1)
        /\ Cardinality({i \in 1..Len(d) : d[i] = ExtensionsEvent}) <= 2}

MpOnly ==
    UNCHANGED <<dbVars, rtVars, cdVars, lfVars, rpVars, dsVars, xpVars, ccVars>>

MsgParserInit ==
    /\ decl \in Decls
    /\ xml = decl
    /\ msg_fields = <<>>
    /\ extensions_start_idx = -1
    /\ is_targeted_msg = FALSE
    /\ parsed = [kind |-> "none"]
    /\ RtInit /\ DbInit0 /\ CdIdle /\ LfIdle
    /\ RpIdle /\ DsIdle /\ XpIdle /\ CcIdle

\* The MsgParser of the call, from the variables.
TheParser == MsgParser(msg_fields, extensions_start_idx, is_targeted_msg)

\* Event::Start "field": MessageField::from_bytes, parse_msg_field; an error
\* is returned with `?`.
MsgField ==
    /\ parsed.kind = "none"
    /\ xml # <<>> /\ Head(xml).ev = "field"
    /\ LET r == parse_msg_field(TheParser, Head(xml).field)
       IN  /\ msg_fields' = r.parser.msg_fields
           /\ is_targeted_msg' = r.parser.is_targeted_msg
           /\ parsed' = IF r.err # "none" THEN MsgErr(r.err) ELSE parsed
    /\ xml' = Tail(xml)
    /\ UNCHANGED <<decl, extensions_start_idx>>
    /\ MpOnly

\* Event::Empty "extensions": record_extension_start; an error is returned
\* with `?`.
MsgExtensions ==
    /\ parsed.kind = "none"
    /\ xml # <<>> /\ Head(xml).ev = "extensions"
    /\ LET r == record_extension_start(TheParser)
       IN  /\ extensions_start_idx' = r.parser.extensions_start_idx
           /\ parsed' = IF r.err # "none" THEN MsgErr(r.err) ELSE parsed
    /\ xml' = Tail(xml)
    /\ UNCHANGED <<decl, msg_fields, is_targeted_msg>>
    /\ MpOnly

\* Event::End "message": compute_offsets, which sorts the base fields in
\* place, and its result is returned.
MsgEnd ==
    /\ parsed.kind = "none"
    /\ xml = <<>>
    /\ parsed' = compute_offsets(TheParser)
    /\ msg_fields' = IF is_targeted_msg THEN layout(TheParser) ELSE msg_fields
    /\ UNCHANGED <<xml, decl, extensions_start_idx, is_targeted_msg>>
    /\ MpOnly

MsgParserNext == MsgField \/ MsgExtensions \/ MsgEnd

SpecMsgParser == MsgParserInit /\ [][MsgParserNext]_vars

(***************************************************************************)
(* SpecParser: try_get_offsets_from_xml loads a root definition file.  A   *)
(* file is the sequence of its <include> and <message> elements; the       *)
(* recursion of parse_xml and parse_content is a stack of (file, place of  *)
(* the next element); a recursion deeper than the thread's stack has room  *)
(* for aborts the process.  All files exist and lie in one directory.      *)
(***************************************************************************)
XmlFiles == {"a.xml", "b.xml", "c.xml"}

RootXml == "a.xml"

Include(f) == [it |-> "include", file |-> f, id |-> 0, offsets |-> <<>>]

\* A <message id=..> whose fields give these offsets (none: not targeted).
MessageDef(id, offsets) ==
    [it |-> "message", file |-> "", id |-> id, offsets |-> offsets]

XmlItems ==
    {Include(f) : f \in XmlFiles}
        \cup { MessageDef(1, <<Offsets(0, <<1>>)>>),
               MessageDef(1, <<>>),
               MessageDef(2, <<Offsets(2, <<>>)>>) }

\* The trees of files: the root with at most MaxItems elements, b.xml with
\* at most two and c.xml with at most one.
XmlTrees ==
    {t \in [XmlFiles -> UNION {[1..n -> XmlItems] : n \in 0..MaxItems}] :
        Len(t["b.xml"]) <= 2 /\ Len(t["c.xml"]) <= 1}

\* TargetedMessage, with (history) the file and place it was read at.
TargetedMessage(id, offsets, file, place) ==
    [id |-> id, offsets |-> offsets, file |-> file, place |-> place]

LoadOk(offsets) == [kind |-> "ok", table |-> offsets, err |-> "none"]

LoadErr(e) == [kind |-> "err", table |-> <<>>, err |-> e]

\* The process was aborted: the stack overflowed.
LoadAborted == [kind |-> "aborted", table |-> <<>>, err |-> "none"]

Loading == [kind |-> "loading", table |-> <<>>, err |-> "none"]

\* HashMap::insert on a map kept as a sequence of <<id, offsets>>: the
\* value of a key that is present is replaced.
HashMap_insert(map, id, offsets) ==
    IF \E i \in 1..Len(map) : map[i][1] = id
    THEN [i \in 1..Len(map) |->
            IF map[i][1] = id THEN <<id, offsets>> ELSE map[i]]
    ELSE Append(map, <<id, offsets>>)

RECURSIVE insert_all(_, _)
insert_all(map, messages) ==
    IF messages = <<>> THEN map
    ELSE insert_all(HashMap_insert(map, Head(messages).id,
                                   Head(messages).offsets),
                    Tail(messages))

\* As main.rs does: a second message of an id is warned about and the
\* table is returned.
collect_offsets_warn(messages) == LoadOk(insert_all(<<>>, messages))

\* try_get_offsets_from_xml behind parse_xml: every targeted message is
\* inserted; `all` stops at the first insert that finds its id present, and
\* the load fails.
collect_offsets(messages) ==
    IF \E i, j \in 1..Len(messages) : i < j /\ messages[i].id = messages[j].id
    THEN LoadErr("MultipleMessagesWithSameId")
    ELSE LoadOk(insert_all(<<>>, messages))

XpOnly ==
    UNCHANGED <<dbVars, rtVars, cdVars, lfVars, rpVars, dsVars, mpVars, ccVars>>

ParserInit ==
    /\ files \in XmlTrees
    /\ stack = <<>>
    /\ targeted_messages = <<>>
    /\ visited_xml_files = {}
    /\ loaded = [kind |-> "none"]
    /\ RtInit /\ DbInit0 /\ CdIdle /\ LfIdle
    /\ RpIdle /\ DsIdle /\ MpIdle /\ CcIdle

\* The call in progress and the element parse_content reads next.
Top == stack[Len(stack)]

AtItem == Top.place <= Len(files[Top.file])

Item == files[Top.file][Top.place]

Advanced == [stack EXCEPT ![Len(stack)].place = @ + 1]

\* Parser::parse_xml called from parse_content for an include: a file in
\* visited_xml_files is skipped; any other is read and parsed by a nested
\* parse_content (the file enters visited_xml_files only when that
\* returns).
parse_xml(f) ==
    IF f \in visited_xml_files THEN [stack |-> Advanced, overflow |-> FALSE,
                                     visited |-> visited_xml_files]
    ELSE IF Len(stack) >= MaxDepth THEN [stack |-> stack, overflow |-> TRUE,
                                         visited |-> visited_xml_files]
    ELSE [stack |-> Append(Advanced, [file |-> f, place |-> 1]),
          overflow |-> FALSE,
          visited |-> visited_xml_files]

\* try_get_offsets_from_xml: Parser::new and parse_xml of the root file.
LoadStart ==
    /\ loaded.kind = "none"
    /\ loaded' = Loading
    /\ stack' = <<[file |-> RootXml, place |-> 1]>>
    /\ UNCHANGED <<files, targeted_messages, visited_xml_files>>
    /\ XpOnly

\* parse_content, <include>: parse_xml of the included file.
XmlInclude ==
    /\ loaded.kind = "loading"
    /\ AtItem /\ Item.it = "include"
    /\ LET r == parse_xml(Item.file)
       IN  /\ stack' = r.stack
           /\ visited_xml_files' = r.visited
           /\ loaded' = IF r.overflow THEN LoadAborted ELSE loaded
    /\ UNCHANGED <<files, targeted_messages>>
    /\ XpOnly

\* parse_content, <message>: a targeted message is pushed.
XmlMessage ==
    /\ loaded.kind = "loading"
    /\ AtItem /\ Item.it = "message"
    /\ targeted_messages' =
         IF Item.offsets # <<>>
         THEN Append(targeted_messages,
                     TargetedMessage(Item.id, Item.offsets[1],
                                     Top.file, Top.place))
         ELSE targeted_messages
    /\ stack' = Advanced
    /\ UNCHANGED <<files, visited_xml_files, loaded>>
    /\ XpOnly

\* parse_content, Event::Eof: parse_content returns, parse_xml inserts the
\* file into visited_xml_files and returns; when it was the call for the
\* root, try_get_offsets_from_xml builds the table.
XmlEof ==
    /\ loaded.kind = "loading"
    /\ ~AtItem
    /\ visited_xml_files' = visited_xml_files \cup {Top.file}
    /\ stack' = SubSeq(stack, 1, Len(stack) - 1)
    /\ loaded' = IF Len(stack) = 1 THEN collect_offsets(targeted_messages)
                 ELSE loaded
    /\ UNCHANGED <<files, targeted_messages>>
    /\ XpOnly

ParserNext == LoadStart \/ XmlInclude \/ XmlMessage \/ XmlEof

SpecParser == ParserInit /\ [][ParserNext]_vars

(***************************************************************************)
(* SpecDbLock: two tasks call insert_or_update and one calls               *)
(* get_target_addresses on one TargetDatabase, each on its own thread.     *)
(* The RwLock admits any number of shared readers beside at most one       *)
(* upgradable reader, or one writer alone; an upgradable reader becomes    *)
(* the writer once the shared readers have left.                           *)
(***************************************************************************)
\* The SysCompIds and the routing info of the calls.
LkIds == {S, T}

LkRoutingInfo == RoutingInfo(<<2, 1>>, <<1, 0>>)

\* self.targets.read(): granted while nobody writes.
can_read(l) == l.writer = {}

\* A lookup under a shared read: granted beside another lookup.
can_upgradable_read_shared(l) == l.writer = {}

\* self.targets.upgradable_read(): granted while nobody writes and nobody
\* else holds the upgradable read.
can_upgradable_read(l) == l.writer = {} /\ l.upgradable = {}

\* ReadGuard::upgrade(targets): granted once no shared reader is left.
can_upgrade(l) == l.readers = {} /\ l.writer = {}

\* An insert_or_update that writes whatever it finds.
lookup_always_write(t, sender, addr) ==
    LET index == position(t, sender)
    IN  [index |-> index, arm |-> IF index = 0 THEN "push" ELSE "update"]

\* insert_or_update, the match on position(): the arm taken.
lookup(t, sender, addr) ==
    LET index == position(t, sender)
    IN  [index |-> index,
         arm |-> IF index # 0 /\ t[index][2] # addr THEN "update"
                 ELSE IF index = 0 THEN "push"
                 ELSE "same"]

LkOnly ==
    UNCHANGED <<firstSeen, call, rtVars, cdVars, lfVars,
                rpVars, dsVars, mpVars, xpVars, tcVars>>

DbLockInit == DbInit0 /\ RtInit /\ CdIdle /\ LfIdle /\ SideIdle

\* insert_or_update, lines 18-20: the upgradable read is taken and the
\* sender is looked up.
InsertBegin(t, sender, addr) ==
    /\ dbtask[t].pc = "idle"
    /\ nops < MaxOps
    /\ can_upgradable_read(rwlock)
    /\ rwlock' = [rwlock EXCEPT !.upgradable = @ \cup {t}]
    /\ LET l == lookup(targets, sender, addr)
       IN  dbtask' = [dbtask EXCEPT ![t] =
                        [pc |-> l.arm, sender |-> sender, addr |-> addr,
                         index |-> l.index, upgraded |-> FALSE,
                         seen |-> targets, res |-> <<>>]]
    /\ nops' = nops + 1
    /\ UNCHANGED <<targets, applied>>
    /\ LkOnly

\* insert_or_update, lines 21 and 25: the guard is upgraded.
InsertUpgrade(t) ==
    /\ dbtask[t].pc \in {"update", "push"}
    /\ ~dbtask[t].upgraded
    /\ can_upgrade(rwlock)
    /\ rwlock' = [rwlock EXCEPT !.upgradable = @ \ {t}, !.writer = {t}]
    /\ dbtask' = [dbtask EXCEPT ![t].upgraded = TRUE]
    /\ UNCHANGED <<targets, applied, nops>>
    /\ LkOnly

\* insert_or_update, lines 22 and 26: the entry is overwritten or pushed,
\* and the write guard is dropped.
InsertWrite(t) ==
    /\ dbtask[t].pc \in {"update", "push"}
    /\ dbtask[t].upgraded
    /\ targets' = IF dbtask[t].pc = "update"
                  THEN [targets EXCEPT ![dbtask[t].index] =
                                  <<dbtask[t].sender, dbtask[t].addr>>]
                  ELSE Append(targets, <<dbtask[t].sender, dbtask[t].addr>>)
    /\ rwlock' = [rwlock EXCEPT !.writer = {}]
    /\ applied' = Append(applied, [dbtask[t] EXCEPT !.pc = t])
    /\ dbtask' = [dbtask EXCEPT ![t] = DbTaskIdle]
    /\ UNCHANGED nops
    /\ LkOnly

\* insert_or_update, line 28: the entry is there with this address; the
\* upgradable guard is dropped.
InsertReturn(t) ==
    /\ dbtask[t].pc = "same"
    /\ rwlock' = [rwlock EXCEPT !.upgradable = @ \ {t}]
    /\ applied' = Append(applied, [dbtask[t] EXCEPT !.pc = t])
    /\ dbtask' = [dbtask EXCEPT ![t] = DbTaskIdle]
    /\ UNCHANGED <<targets, nops>>
    /\ LkOnly

\* get_target_addresses, lines 33-34: the shared read is taken.
ReadBegin(t) ==
    /\ dbtask[t].pc = "idle"
    /\ nops < MaxOps
    /\ can_read(rwlock)
    /\ rwlock' = [rwlock EXCEPT !.readers = @ \cup {t}]
    /\ dbtask' = [dbtask EXCEPT ![t] = [DbTaskIdle EXCEPT !.pc = "reading"]]
    /\ nops' = nops + 1
    /\ UNCHANGED <<targets, applied>>
    /\ LkOnly

\* get_target_addresses, lines 35-38: the addresses are collected and the
\* guard is dropped.
ReadEnd(t) ==
    /\ dbtask[t].pc = "reading"
    /\ rwlock' = [rwlock EXCEPT !.readers = @ \ {t}]
    /\ dbtask' = [dbtask EXCEPT ![t] =
                    [DbTaskIdle EXCEPT
                       !.res = get_target_addresses(targets, LkRoutingInfo)]]
    /\ UNCHANGED <<targets, applied, nops>>
    /\ LkOnly

DbLockNext ==
    \/ \E t \in DbWriters, sender \in LkIds, addr \in DbAddrs :
          InsertBegin(t, sender, addr)
    \/ \E t \in DbWriters : InsertUpgrade(t)
    \/ \E t \in DbWriters : InsertWrite(t)
    \/ \E t \in DbWriters : InsertReturn(t)
    \/ \E t \in DbReaders : ReadBegin(t)
    \/ \E t \in DbReaders : ReadEnd(t)

SpecDbLock == DbLockInit /\ [][DbLockNext]_vars

(***************************************************************************)
(* SpecTcp: the tasks of one TcpTransmitter (endpoint/transmitter/tcp.rs): *)
(* accept_connections, one recv per connection and write, around the map   *)
(* of writer halves behind a tokio Mutex.  A task is in every state at one *)
(* of its await points; what it does between two of them is one step.  A   *)
(* connection is the number it was accepted as.                            *)
(***************************************************************************)
TcOnly ==
    UNCHANGED <<dbVars, rtVars, cdVars, lfVars,
                rpVars, dsVars, mpVars, xpVars, lkVars>>

TcpInit == DbInit0 /\ RtInit /\ CdIdle /\ LfIdle /\ SideIdle

\* A connection just accepted: the peer has it open, no reader task yet.
Connection(addr) ==
    [addr |-> addr, peer |-> "open", reader |-> "unspawned", errs |-> 0]

\* accept_connections, lines 89-98: listener.accept() returns a connection
\* from addr (no other connection from that address is open at the peer);
\* the task goes on to wait for the Mutex.
Accept(addr) ==
    /\ acceptor.pc = "accept"
    /\ Len(conns) < MaxConns
    /\ \A c \in 1..Len(conns) : conns[c].addr = addr => conns[c].peer # "open"
    /\ conns' = Append(conns, Connection(addr))
    /\ acceptor' = [pc |-> "insert", conn |-> Len(conns) + 1]
    /\ UNCHANGED <<connections, mutex, wtask, wlog, rxup>>
    /\ TcOnly

\* accept_connections, lines 101-104: the Mutex is taken, the writer half is
\* inserted under the address (in the place of one that is there), the
\* guard is dropped and the reader task is spawned.
AcceptorInsert ==
    /\ acceptor.pc = "insert"
    /\ mutex = "none"
    /\ connections' = [connections EXCEPT ![conns[acceptor.conn].addr] =
                                              acceptor.conn]
    /\ conns' = [conns EXCEPT ![acceptor.conn].reader = "read"]
    /\ acceptor' = [pc |-> "accept", conn |-> 0]
    /\ UNCHANGED <<mutex, wtask, wlog, rxup>>
    /\ TcOnly

\* The connections from addr that the peer has open and a reader task reads.
Live(addr) ==
    {c \in 1..Len(conns) :
        /\ conns[c].addr = addr
        /\ conns[c].peer = "open" /\ conns[c].reader = "read"}

\* The peer closes its connection.
PeerClose(c) ==
    /\ c \in 1..Len(conns)
    /\ conns[c].peer = "open"
    /\ conns' = [conns EXCEPT ![c].peer = "closed"]
    /\ UNCHANGED <<connections, mutex, acceptor, wtask, wlog, rxup>>
    /\ TcOnly

\* recv, lines 116-131: reader.read() returns.  Ok(0) leaves the loop; data
\* and an error alike are sent to msg_tx, and the loop is left only when
\* that send fails.
ReaderRead(c, res) ==
    /\ c \in 1..Len(conns)
    /\ conns[c].reader = "read"
    /\ CASE res = "eof" ->
              /\ conns[c].peer = "closed"
              /\ conns' = [conns EXCEPT ![c].reader = "remove"]
         [] res = "data" ->
              /\ conns[c].peer = "open"
              /\ conns' = [conns EXCEPT ![c].reader =
                                  IF rxup THEN "read" ELSE "remove"]
         [] res = "err" ->
              /\ conns[c].errs < MaxErrors
              /\ conns' = [conns EXCEPT ![c].errs = @ + 1,
                                        ![c].reader =
                                  IF rxup THEN "read" ELSE "remove"]
    /\ UNCHANGED <<connections, mutex, acceptor, wtask, wlog, rxup>>
    /\ TcOnly

\* recv, line 133: the Mutex is taken, the entry of the address is removed
\* and the task ends.
ReaderRemove(c) ==
    /\ c \in 1..Len(conns)
    /\ conns[c].reader = "remove"
    /\ mutex = "none"
    /\ connections' = [connections EXCEPT ![conns[c].addr] = 0]
    /\ conns' = [conns EXCEPT ![c].reader = "done"]
    /\ UNCHANGED <<mutex, acceptor, wtask, wlog, rxup>>
    /\ TcOnly

\* The Receiver half of the transmitter is dropped.
TcpReceiverDropped ==
    /\ rxup
    /\ rxup' = FALSE
    /\ UNCHANGED <<connections, mutex, conns, acceptor, wtask, wlog>>
    /\ TcOnly

\* write, lines 138-141: a frame for addr is taken from msg_rx; the task
\* goes on to wait for the Mutex.
WriteRecv(addr) ==
    /\ wtask.pc = "recv"
    /\ Len(wlog) < MaxWrites
    /\ wtask' = [pc |-> "lock", addr |-> addr, conn |-> 0]
    /\ UNCHANGED <<connections, mutex, conns, acceptor, wlog, rxup>>
    /\ TcOnly

\* write, lines 143-151: the Mutex is taken.  Without a writer for the
\* address 'No connection' is logged and the guard is dropped; with one,
\* write_all is awaited under the guard.
WriteLock ==
    /\ wtask.pc = "lock"
    /\ mutex = "none"
    /\ IF connections[wtask.addr] = 0
       THEN /\ wlog' = Append(wlog, [addr |-> wtask.addr, conn |-> 0,
                                     live |-> Live(wtask.addr)])
            /\ wtask' = [pc |-> "recv", addr |-> "", conn |-> 0]
            /\ UNCHANGED mutex
       ELSE /\ mutex' = "write"
            /\ wtask' = [wtask EXCEPT !.pc = "writing",
                                      !.conn = connections[wtask.addr]]
            /\ UNCHANGED wlog
    /\ UNCHANGED <<connections, conns, acceptor, rxup>>
    /\ TcOnly

\* write, lines 151-152: write_all returns (an error is logged); the guard
\* is dropped at the end of the loop body.
WriteDone ==
    /\ wtask.pc = "writing"
    /\ wlog' = Append(wlog, [addr |-> wtask.addr, conn |-> wtask.conn,
                              live |-> Live(wtask.addr)])
    /\ mutex' = "none"
    /\ wtask' = [pc |-> "recv", addr |-> "", conn |-> 0]
    /\ UNCHANGED <<connections, conns, acceptor, rxup>>
    /\ TcOnly

TcpNext ==
    \/ \E addr \in TcpAddrs : Accept(addr)
    \/ AcceptorInsert
    \/ \E c \in 1..MaxConns : PeerClose(c)
    \/ \E c \in 1..MaxConns, res \in {"eof", "data", "err"} : ReaderRead(c, res)
    \/ \E c \in 1..MaxConns : ReaderRemove(c)
    \/ TcpReceiverDropped
    \/ \E addr \in TcpAddrs : WriteRecv(addr)
    \/ WriteLock
    \/ WriteDone

SpecTcp == TcpInit /\ [][TcpNext]_vars

(***************************************************************************)
(* SpecCodec: the codec in front of a stream that arrives byte by byte or  *)
(* all at once, decode and encode called at any moment.                    *)
(***************************************************************************)
CodecInit == CdInit0 /\ RtInit /\ DbInit0 /\ LfIdle /\ SideIdle

CodecNext ==
    \/ \E n \in (1..MaxChunk) \cup {Len(stream)} : CodecArrive(n)
    \/ CodecDecode
    \/ \E k \in 1..Len(out) : CodecEncode(k)

SpecCodec == CodecInit /\ [][CodecNext]_vars

(***************************************************************************)
(* Claims on SysCompId::matches and the target database (SpecDb).          *)
(***************************************************************************)
Range(s) == {s[i] : i \in 1..Len(s)}

\* C2: for every peer (s,c) with s # 0 and c # 0, the targets (0,0), (s,0)
\* and (s,c) match it, and no target (s',c') with s' # s and s' # 0 does.
C2_BroadcastMatch ==
    call.op = "matches" =>
        LET target == call.a
            peer == call.b
            res == call.res[1]
        IN  is_valid_sender(peer) =>
              /\ target \in {<<0, 0>>, <<sys_id(peer), 0>>, peer} => res
              /\ (sys_id(target) # sys_id(peer) /\ sys_id(target) # 0) => ~res

\* A system broadcast (s,0) was matched against a peer (s,c) of that system,
\* and a target of another system was rejected.
C2_Witness ==
    /\ call.op = "matches"
    /\ is_valid_sender(call.b)
    /\ \/ call.a = <<sys_id(call.b), 0>> /\ call.res[1]
       \/ sys_id(call.a) \notin {0, sys_id(call.b)} /\ comp_id(call.a) = 0
          /\ ~call.res[1]

\* The SysCompIds of the database that a routing info selects, in the order
\* of their first insertion.
Qualifying(ri) ==
    SelectSeq(firstSeen,
              LAMBDA id : matches(ri.target, id) /\ ri.sender # id)

\* C3: get_target_addresses returns exactly the addresses of the entries
\* (id, addr) with target.matches(id) and sender # id, in the order the
\* entries were first inserted, and the empty list when none qualifies.
C3_LookupExact ==
    call.op = "lookup" =>
        LET ri == RoutingInfo(call.a, call.b)
            q == Qualifying(ri)
        IN  /\ Len(call.res) = Len(q)
            /\ \A i \in 1..Len(q) : <<q[i], call.res[i]>> \in Range(targets)
            /\ Cardinality({i \in 1..Len(targets) :
                    matches(ri.target, targets[i][1])
                    /\ ri.sender # targets[i][1]}) = Len(call.res)

\* A lookup over three entries returned two addresses and left out the entry
\* of the frame's own sender although the target matches it.
C3_Witness ==
    /\ call.op = "lookup"
    /\ Len(targets) = 3
    /\ Len(call.res) = 2
    /\ \E i \in 1..Len(targets) :
          targets[i][1] = call.a /\ matches(call.b, targets[i][1])

(***************************************************************************)
(* Claims on the routing plane (Spec, SpecFair).                           *)
(***************************************************************************)
\* The records endpoint e's sender task wrote for frame k.
Records(e, k) == {i \in 1..Len(sent[e]) : sent[e][i].frame = k}

Sender(k) == hist[k].routing_info.sender

Target(k) == hist[k].routing_info.target

\* The frame has left its receiver: it is in the routing plane.
Published(k) == k <= Len(hist) /\ \A e \in Endpoints : rmsg[e] # k

\* Endpoint e had learned id from a frame that arrived before frame k.
LearnedBefore(e, id, k) ==
    \E j \in 1..(k - 1) : hist[j].ep = e /\ Sender(j) = id

\* The address of the latest frame before k that e received from id.
AddrBefore(e, id, k) ==
    LET j == CHOOSE j \in 1..(k - 1) :
                /\ hist[j].ep = e /\ Sender(j) = id
                /\ \A l \in (j + 1)..(k - 1) :
                      ~(hist[l].ep = e /\ Sender(l) = id)
    IN  hist[j].addr

Count(seq, x) == Cardinality({i \in 1..Len(seq) : seq[i] = x})

\* C1: a frame whose sender is recorded in endpoint E's database
\* with address P is never handed to E's transport with destination P.
\* (The lookup excludes the entry of the sender, not its address: it is
\* violated when the address is also recorded under a SysCompId the target
\* matches.)
C1_NoReflectionToAddress ==
    \A e \in Endpoints : \A i \in 1..Len(sent[e]) :
        LET r == sent[e][i]
        IN  \A P \in Range(r.fed) : <<Sender(r.frame), P>> \notin Range(r.looked)

\* The frames of the unicast scenario: valid sender, a valid target that is
\* another SysCompId, received on A after endpoint B learned the target.
Unicast(k, A, B) ==
    /\ k <= Len(hist)
    /\ hist[k].ep = A
    /\ B # A
    /\ is_valid_sender(Sender(k))
    /\ is_valid_sender(Target(k))
    /\ Sender(k) # Target(k)
    /\ LearnedBefore(B, Target(k), k)

Broadcast(k, e) ==
    /\ k <= Len(hist)
    /\ hist[k].ep # e
    /\ is_valid_sender(Sender(k))
    /\ Target(k) = <<0, 0>>

\* Endpoint e sent frame k to the address of every entry of its database,
\* as its sender task looked it up, whose SysCompId differs from the sender.
SentToAll(e, k) ==
    \E i \in Records(e, k) :
        LET r == sent[e][i]
        IN  r.ok =>
              \A j \in 1..Len(r.looked) :
                  r.looked[j][1] # Sender(k) => r.looked[j][2] \in Range(r.fed)

Magic(b) == b = 254 \/ b = 253

MagicFree(bytes) == \A i \in 1..Len(bytes) : ~Magic(bytes[i])

\* The length of the frame a buffer that starts with a magic byte announces.
FrameLen(bytes) ==
    IF bytes[1] = 254 THEN 6 + bytes[2] + 2
    ELSE 10 + bytes[2] + 2 + (IF bytes[3] % 2 = 1 THEN 13 ELSE 0)

WellFormed(bytes) ==
    /\ Len(bytes) >= 3
    /\ Magic(bytes[1])
    /\ Len(bytes) = FrameLen(bytes)

\* The whole stream has arrived and decode has returned None on it.
Quiescent == stream = <<>> /\ ~readable /\ last.called

\* The frame of the stream was returned, with exactly its bytes.
FrameYielded ==
    \E k \in 1..Len(out) :
        out[k].at = Len(scen.prefix) /\ out[k].data = scen.frame

\* C6: for a well-formed v1 or v2 frame alone in the buffer, decode returns
\* one Message whose data is the buffer's bytes and leaves the buffer empty
\* (on which a further decode returns nothing), and encode of that Message
\* appends exactly those bytes.
C6_RoundTrip ==
    /\ (last.called /\ WellFormed(last.pre)) =>
          /\ last.ok /\ last.some
          /\ last.item.data = last.pre
          /\ last.post = <<>>
    /\ (last.called /\ last.pre = <<>>) => ~last.some
    /\ (lastEnc.k # 0 /\ WellFormed(out[lastEnc.k].pre)) =>
          /\ lastEnc.ok
          /\ dst = lastEnc.before \o out[lastEnc.k].pre

\* A signed v2 frame with a payload, alone in the buffer, was decoded and
\* the Message encoded.
C6_Witness ==
    /\ lastEnc.k # 0
    /\ LET pre == out[lastEnc.k].pre
       IN  /\ WellFormed(pre)
           /\ pre[1] = 253 /\ pre[2] > 0 /\ pre[3] % 2 = 1

\* C7: whatever the buffer holds, decode returns Ok, with a Message or with
\* None, and every index it reads is inside the bytes it reads from.
C7_DecodeTotal ==
    last.called => last.ok /\ ~last.panic

\* decode returned a frame whose target offset lies behind its payload,
\* from a buffer that holds more than the frame.
C7_Witness ==
    /\ last.called /\ last.some
    /\ last.item.data[1] = 254 /\ last.item.data[6] = 11
    /\ last.item.routing_info.target = <<0, 0>>
    /\ last.post # <<>>

\* C8: on prefix ++ frame ++ suffix with a non-empty prefix that holds no
\* magic byte, one decode call returns the frame and leaves the suffix.
C8_ResyncOverPrefix ==
    \A n \in 0..Len(scen.suffix) :
        ( /\ last.called
          /\ scen.prefix # <<>> /\ MagicFree(scen.prefix)
          /\ last.pre = scen.prefix \o scen.frame \o SubSeq(scen.suffix, 1, n) )
        => /\ last.some
           /\ last.item.data = scen.frame
           /\ last.at = Len(scen.prefix)
           /\ last.post = SubSeq(scen.suffix, 1, n)

\* A v2 frame behind a magic-free prefix and before a suffix was returned.
C8_Witness ==
    /\ last.called /\ last.some
    /\ scen.prefix # <<>> /\ MagicFree(scen.prefix)
    /\ scen.suffix # <<>>
    /\ scen.frame[1] = 253
    /\ last.pre = Whole(scen)
    /\ last.post = scen.suffix

\* C9: when the buffer is non-magic bytes followed by the beginning of a
\* frame, decode returns nothing and drops only the bytes before the magic
\* byte, and once the rest has arrived the frame is returned.
C9_ResyncKeepsPartialFrame ==
    (scen.prefix # <<>> /\ MagicFree(scen.prefix)) =>
        /\ \A n \in (Len(scen.prefix) + 1)..(Len(scen.prefix) + Len(scen.frame) - 1) :
              (last.called /\ last.pre = SubSeq(Whole(scen), 1, n)) =>
                  /\ ~last.some
                  /\ last.post = SubSeq(last.pre, Len(scen.prefix) + 1, n)
        /\ Quiescent => FrameYielded

\* The prefix begins with a stray magic byte, and the frame the bytes behind
\* it announce is longer than the prefix: the codec waits for more bytes.
StrayHead ==
    /\ scen.prefix # <<>>
    /\ Magic(scen.prefix[1])
    /\ FrameLen(Whole(scen)) > Len(scen.prefix)

\* C10 as stated: behind a prefix with a stray magic byte that makes the
\* codec wait, the valid frame is still returned, with exactly its bytes,
\* once the stream has arrived and been decoded.
C10_StrayMagicAsStated ==
    (StrayHead /\ Quiescent) => FrameYielded

\* C10 as amended: behind a prefix that begins with a stray magic byte that
\* makes the codec wait, the first Message decode returns starts at the
\* stray byte and has the length the bytes behind it announce, so it takes
\* in the beginning of the valid frame, and no Message that starts at the
\* valid frame's first byte is ever returned.
C10_StrayMagic ==
    StrayHead =>
        /\ \A k \in 1..Len(out) : out[k].at # Len(scen.prefix)
        /\ out # <<>> =>
              /\ out[1].at = 0
              /\ Len(out[1].data) = FrameLen(Whole(scen))

\* The stream behind a stray magic byte has arrived and been decoded, and
\* the spurious frame was returned.
C10_Witness ==
    /\ StrayHead /\ Quiescent
    /\ out # <<>>
    /\ Len(out[1].data) > Len(scen.prefix)

\* C11: every Message decode returns has a data length of 6 + data[1] + 2
\* when it starts with 0xFE, whatever its byte 2 is, and of 10 + data[1] + 2,
\* plus 13 exactly when bit 0x01 of data[2] is set, when it starts with 0xFD;
\* the call takes exactly these bytes, and the ones it skipped, off the buffer.
C11_FrameLength ==
    /\ \A k \in 1..Len(out) :
          /\ Magic(out[k].data[1])
          /\ Len(out[k].data) = FrameLen(out[k].data)
    /\ (last.called /\ last.some) =>
          /\ consumed - last.at = Len(last.item.data)
          /\ Len(last.pre) - Len(last.post) >= Len(last.item.data)

\* The signed v2 frame with a payload of 5 bytes was returned: 30 bytes.
C11_Witness ==
    /\ last.called /\ last.some
    /\ last.item.data[1] = 253 /\ last.item.data[2] = 5
    /\ last.item.data[3] % 2 = 1
    /\ Len(last.item.data) = 30
    /\ Len(last.pre) - Len(last.post) = 30

\* The buffer begins with a magic byte and holds fewer bytes than the
\* version's minimum packet length or than the frame it announces.
PendingFrame(bytes) ==
    /\ bytes # <<>>
    /\ Magic(bytes[1])
    /\ \/ Len(bytes) < (IF bytes[1] = 254 THEN 8 ELSE 12)
       \/ Len(bytes) < FrameLen(bytes)

\* C12: on a buffer that begins with a magic byte and holds less than the
\* frame, decode returns nothing and leaves the buffer's bytes as they were,
\* so that a stream that begins with a frame yields that frame first, and
\* does yield it once all of it has arrived.
C12_PendingUntouched ==
    /\ (last.called /\ PendingFrame(last.pre)) =>
          /\ last.ok /\ ~last.some
          /\ last.post = last.pre
    /\ scen.prefix = <<>> =>
          /\ out # <<>> => out[1].at = 0 /\ out[1].data = scen.frame
          /\ Quiescent => out # <<>>
          /\ (out = <<>> /\ ~readable) => buf = SubSeq(scen.frame, 1, Len(buf))

\* decode returned nothing on a signed v2 frame that has its header and not
\* yet its signature, and the bytes are still in the buffer.
C12_Witness ==
    /\ last.called /\ ~last.some
    /\ Len(last.pre) >= 12
    /\ last.pre[1] = 253 /\ last.pre[3] % 2 = 1
    /\ Len(last.pre) >= 12 + last.pre[2]
    /\ PendingFrame(last.pre)
    /\ buf = last.pre

\* The routing info a frame's bytes carry: the sender and msg_id fields of
\* its version, and the target at the offsets the table gives for msg_id,
\* read in the declared payload only (0 where the offset is absent or lies
\* behind the payload; (0, 0) when the table has no entry for msg_id).
CarriedRouting(data) ==
    LET isV1 == data[1] = 254
        header == IF isV1 THEN 6 ELSE 10
        sender == IF isV1 THEN <<data[4], data[5]>> ELSE <<data[6], data[7]>>
        id == IF isV1 THEN data[6]
              ELSE data[8] + 256 * data[9] + 65536 * data[10]
        payload_len == data[2]
        At(i) == IF i < payload_len THEN data[header + i + 1] ELSE 0
        target ==
            IF id \notin DOMAIN OffsetsTable THEN <<0, 0>>
            ELSE <<At(OffsetsTable[id].system_id),
                   IF OffsetsTable[id].component_id = <<>> THEN 0
                   ELSE At(OffsetsTable[id].component_id[1])>>
    IN  [sender |-> sender, target |-> target]

\* C13: the routing info of every Message decode returns is the one its
\* bytes carry.
C13_RoutingInfo ==
    \A k \in 1..Len(out) : out[k].routing_info = CarriedRouting(out[k].data)

\* Returned: a frame whose target is read inside its payload.
C13_Witness ==
    /\ last.called /\ last.some
    /\ last.item.data[1] = 254 /\ last.item.data[6] = 11
    /\ last.item.data[2] = 5
    /\ last.item.routing_info = RoutingInfo(<<1, 1>>, <<5, 0>>)

(***************************************************************************)
(* Further claims on the target database (SpecDb).                         *)
(***************************************************************************)
\* The indexes of the entries of t recorded for id.
EntriesOf(t, id) == {i \in 1..Len(t) : t[i][1] = id}

\* C14: insert_or_update(s, a) on a database that holds (s, a) leaves the
\* entries, their addresses and their order as they were.
C14_Idempotent ==
    (call.op = "insert" /\ <<call.a, call.addr>> \in Range(call.before)) =>
        targets = call.before

\* (s, a) was inserted again into a database of three entries.
C14_Witness ==
    /\ call.op = "insert"
    /\ Len(call.before) = 3
    /\ call.before[2] = <<call.a, call.addr>>
    /\ targets = call.before

C17_NeverEvicted ==
    [][ /\ Len(targets') >= Len(targets)
        /\ \A i \in 1..Len(targets) : targets'[i][1] = targets[i][1]
        /\ {targets[i][1] : i \in 1..Len(targets)}
              \subseteq {targets'[i][1] : i \in 1..Len(targets')} ]_vars

\* The address of the first entry of a full database was changed, and the
\* entries are where they were.
C17_Witness ==
    /\ call.op = "insert"
    /\ Len(call.before) = Cardinality(DbIds)
    /\ call.before[1][1] = call.a
    /\ targets # call.before
    /\ \A i \in 1..Len(call.before) : targets[i][1] = call.before[i][1]

(***************************************************************************)
(* Further claims on the endpoints (Spec).                                 *)
(***************************************************************************)
\* C16: every entry (S, addr) of an endpoint's database has a valid sender
\* S, and addr is the source address of the latest frame of sender S that the
\* endpoint has received.
C16_MostRecentAddress ==
    \A e \in Endpoints : \A i \in 1..Len(db[e]) :
        LET id == db[e][i][1]
        IN  /\ is_valid_sender(id)
            /\ LearnedBefore(e, id, Len(hist) + 1)
            /\ db[e][i][2] = AddrBefore(e, id, Len(hist) + 1)

\* An endpoint received two frames of one sender from two addresses and
\* records the second address.
C16_Witness ==
    \E e \in Endpoints : \E i \in 1..Len(db[e]) :
        \E j \in 1..Len(hist), k \in 1..Len(hist) :
            /\ j < k
            /\ hist[j].ep = e /\ hist[k].ep = e
            /\ Sender(j) = db[e][i][1] /\ Sender(k) = db[e][i][1]
            /\ hist[j].addr # hist[k].addr
            /\ db[e][i][2] = hist[k].addr

\* C18: the receiver learns the source address of a frame exactly when the
\* frame's sender has a non-zero sys_id and a non-zero comp_id, and it
\* publishes the frame to the routing plane in both cases: once the receiver
\* is back at recv, every endpoint's subscription holds the frame or its
\* sender task has taken it.
C18_LearnIffValid ==
    \A k \in 1..Len(hist) :
        LET id == Sender(k)
            e == hist[k].ep
        IN  /\ (id[1] # 0 /\ id[2] # 0) <=> (position(db[e], id) # 0)
            /\ IF rmsg[e] = k THEN rpc[e] = "publish"
               ELSE \A s \in Endpoints :
                        k \in Range(queue[s]) \/ Records(s, k) # {}

\* A frame with an invalid sender was received, not learned, published, and
\* taken by the sender task of the other endpoint.
C18_Witness ==
    \E k \in 1..Len(hist) :
        /\ Sender(k)[1] = 0
        /\ position(db[hist[k].ep], Sender(k)) = 0
        /\ Published(k)
        /\ \E s \in Endpoints : s # hist[k].ep /\ Records(s, k) # {}

(***************************************************************************)
(* Claims on the tasks of the endpoints (SpecSenderLife, SpecReceiverLife). *)
(***************************************************************************)
\* A step in which the sender task of e is told of a lag.
LagReported(e) == lagged[e] > 0 /\ lagged'[e] = 0

\* A step in which the sender task of e leaves its loop.
SenderStops(e) == spc[e] = "running" /\ spc'[e] = "stopped"

\* A step in which the receiver task of e ends.
ReceiverStops(e) == rpc[e] # "stopped" /\ rpc'[e] = "stopped"

\* C19: a running sender task that is told of a lag logs the count, stays
\* running with the frames its subscription still holds, and goes on to take
\* the oldest of them; it logs nothing but lags; it stops only when no
\* producer is left and it has read everything; and once no producer is left
\* every sender task eventually stops.
C19_SenderStateMachine ==
    /\ [][\A e \in Endpoints :
            /\ LagReported(e) =>
                 /\ logged'[e] = Append(logged[e], lagged[e])
                 /\ spc[e] = "running" /\ spc'[e] = "running"
                 /\ queue'[e] = queue[e] /\ queue[e] # <<>>
            /\ logged'[e] # logged[e] => LagReported(e)
            /\ Len(sent'[e]) > Len(sent[e]) =>
                 /\ spc[e] = "running" /\ spc'[e] = "running"
                 /\ sent'[e][Len(sent'[e])].frame = Head(queue[e])
            /\ SenderStops(e) =>
                 producers = {} /\ queue[e] = <<>> /\ lagged[e] = 0]_vars
    /\ \A e \in Endpoints, n \in 0..MaxFrames :
         (lagged[e] > 0 /\ Len(sent[e]) = n) ~> (Len(sent[e]) > n)
    /\ (producers = {}) ~> (\A e \in Endpoints : spc[e] = "stopped")

\* Reached: over a channel of capacity 1 the subscription of A lost frame 1,
\* its sender task logged the lag of one frame, took frame 2, and stopped,
\* as did the other, after the last producer had gone.
C19_Witness ==
    /\ cap = 1
    /\ logged["A"] = <<1>>
    /\ \E i \in DOMAIN sent["A"] : sent["A"][i].frame = 2
    /\ \A i \in DOMAIN sent["A"] : sent["A"][i].frame # 1
    /\ producers = {}
    /\ \A e \in Endpoints : spc[e] = "stopped"

\* C20: a receiver task that holds a frame while the routing plane is gone
\* ends without publishing it, and eventually does; an ended receiver stays
\* ended and no frame is received on its endpoint any more; a receiver task
\* ends in no other way, and a recv() that returns an error leaves it
\* receiving.
C20_ReceiverTermination ==
    /\ [][\A e \in Endpoints :
            /\ (rpc[e] = "publish" /\ plane = "gone" /\ rpc'[e] # rpc[e]) =>
                 rpc'[e] = "stopped" /\ queue' = queue
            /\ rpc[e] = "stopped" =>
                 /\ rpc'[e] = "stopped"
                 /\ hist' # hist => hist'[Len(hist')].ep # e
            /\ ReceiverStops(e) => rpc[e] = "publish" /\ plane = "gone"
            /\ rerrs'[e] # rerrs[e] =>
                 /\ rpc[e] = "recv" /\ rpc'[e] = "recv"
                 /\ hist' = hist /\ db' = db /\ queue' = queue]_vars
    /\ \A e \in Endpoints :
         (rpc[e] = "publish" /\ plane = "gone") ~> (rpc[e] = "stopped")

\* Reached: the receiver of A ended on the frame it could not publish; the
\* receiver of B, whose recv() had returned an error, went on to receive
\* the one frame it holds.
C20_Witness ==
    /\ plane = "gone"
    /\ Len(hist) = 2 /\ hist[1].ep = "A" /\ hist[2].ep = "B"
    /\ rpc["A"] = "stopped" /\ queue["B"] = <<>> /\ sent["B"] = <<>>
    /\ rerrs["B"] = 1 /\ rpc["B"] = "publish" /\ rmsg["B"] = 2

(***************************************************************************)
(* Claims on the order of the frames (Spec).                               *)
(***************************************************************************)
\* The frames of a sequence of frame numbers that arrived at endpoint r.
FromEp(frames, r) == SelectSeq(frames, LAMBDA k : hist[k].ep = r)

\* The frames the sender task of e took, in the order it took them.
Taken(e) == [i \in 1..Len(sent[e]) |-> sent[e][i].frame]

\* The frames the sender task of e handed to its transport for peer a.
TakenFor(e, a) ==
    LET idx == SelectSeq([i \in 1..Len(sent[e]) |-> i],
                         LAMBDA i : a \in Range(sent[e][i].fed))
    IN  [j \in 1..Len(idx) |-> sent[e][idx[j]].frame]

\* A frame's number is its place in the order of arrival.
InArrivalOrder(frames) ==
    \A i, j \in 1..Len(frames) : i < j => frames[i] < frames[j]

\* The peer addresses of the datagrams.
Peers == {d.addr : d \in Datagrams}

C22_PublishersNeverBlock ==
    /\ \A e \in Endpoints : rpc[e] = "publish" => Len(msgs) < cap
    /\ routing.todo # <<>> => Len(queue[Head(routing.todo)]) < EndpointCap

(***************************************************************************)
(* Claims on Sender::send (Spec).                                          *)
(***************************************************************************)
\* The destinations the lookup of a record of sent[e] returned.
Matched(r) == get_target_addresses(r.looked, hist[r.frame].routing_info)

\* C23: when a feed of a frame fails, the frame is still fed for every
\* matched destination behind the one that failed (none is left out), and
\* the sender task keeps running.
C23_SendFailureTransient ==
    \A e \in Endpoints :
        /\ spc[e] = "running"
        /\ \A i \in 1..Len(sent[e]) :
             ~sent[e][i].ok => Len(sent[e][i].fed) + 1 >= Len(Matched(sent[e][i]))

(***************************************************************************)
(* Claims on the bytes that are forwarded (SpecCodec).                     *)
(***************************************************************************)
\* The bytes of the stream from offset at on, len of them.
Received(at, len) == SubSeq(Whole(scen), at + 1, at + len)

C25_MalformedNeverAborts ==
    deser.called => deser.res.kind \in {"ok", "err"}

(***************************************************************************)
(* Claims on the message definitions (SpecMsgParser).                      *)
(***************************************************************************)
\* The fields of a definition, in the order they are declared.
FieldsOf(d) ==
    LET ev == SelectSeq(d, LAMBDA e : e.ev = "field")
    IN  [i \in 1..Len(ev) |-> ev[i].field]

\* The number of fields declared before the first <extensions/> marker.
BaseCount(d) ==
    IF \E i \in 1..Len(d) : d[i] = ExtensionsEvent
    THEN Len(FieldsOf(SubSeq(d, 1,
             (CHOOSE i \in 1..Len(d) :
                 /\ d[i] = ExtensionsEvent
                 /\ \A j \in 1..(i - 1) : d[j] # ExtensionsEvent) - 1)))
    ELSE Len(FieldsOf(d))

\* The place of a field in a sequence of fields that holds it once.
Place(fields, f) == CHOOSE i \in 1..Len(fields) : fields[i] = f

\* The sum of primitive size x multiplicity over the fields before place i.
OffsetAt(fields, i) ==
    LET RECURSIVE sum(_)
        sum(j) == IF j = 0 THEN 0
                  ELSE size(fields[j].kind) * fields[j].multiplicity + sum(j - 1)
    IN  sum(i - 1)

Named(fields, name) == {i \in 1..Len(fields) : fields[i].name = name}

\* compute_offsets ran: every event was read without an error.
Computed ==
    /\ parsed.kind # "none"
    /\ parsed.err \notin {"TargetFieldNotU8", "TargetFieldNotSingleValue",
                          "MultipleExtensionsFields"}

\* The definition of the example: u8[3] a, u8[2] b, u16 c, u8 target_system,
\* u8 target_component.
ExampleDecl ==
    << FieldEvent(MessageField("a", "U8", 3)),
       FieldEvent(MessageField("b", "U8", 2)),
       FieldEvent(MessageField("c", "U16", 1)),
       FieldEvent(MessageField("target_system", "U8", 1)),
       FieldEvent(MessageField("target_component", "U8", 1)) >>

\* C26: for a targeted message, the base fields are laid out in descending
\* order of primitive size, those of one primitive size in the order they
\* were declared; the extension fields follow as declared; the offsets
\* returned are the sums of the total sizes of the fields laid out before
\* target_system and before target_component; the example gives 7 and 8.
C26_OffsetLayout ==
    (Computed /\ is_targeted_msg /\ parsed.kind = "ok"
        /\ parsed.offsets # <<>>) =>
        LET declared == FieldsOf(decl)
            n == Len(declared)
            k == BaseCount(decl)
            base == SubSeq(msg_fields, 1, k)
            declBase == SubSeq(declared, 1, k)
        IN  /\ Len(msg_fields) = n
            /\ Range(base) = Range(declBase)
            /\ \A i, j \in 1..k : i < j =>
                 \/ size(base[i].kind) > size(base[j].kind)
                 \/ /\ size(base[i].kind) = size(base[j].kind)
                    /\ Place(declBase, base[i]) < Place(declBase, base[j])
            /\ SubSeq(msg_fields, k + 1, n) = SubSeq(declared, k + 1, n)
            /\ \E i \in Named(msg_fields, "target_system") :
                 parsed.offsets[1].system_id = OffsetAt(msg_fields, i)
            /\ IF Named(msg_fields, "target_component") = {}
               THEN parsed.offsets[1].component_id = <<>>
               ELSE \E i \in Named(msg_fields, "target_component") :
                      parsed.offsets[1].component_id
                          = <<OffsetAt(msg_fields, i)>>
            /\ decl = ExampleDecl =>
                 parsed.offsets = <<Offsets(7, <<8>>)>>

\* Reached: the definition of the example was read to its closing tag.
C26_Witness ==
    /\ decl = ExampleDecl
    /\ parsed.kind = "ok"
    /\ parsed.offsets = <<Offsets(7, <<8>>)>>

\* The orders of the fields of d: every rearrangement of its fields among
\* the places of its fields, the markers left where they are.
Orders(d) ==
    {[i \in 1..Len(d) |-> d[q[i]]] :
        q \in {q \in [1..Len(d) -> 1..Len(d)] :
                 /\ \A i, j \in 1..Len(d) : i # j => q[i] # q[j]
                 /\ \A i \in 1..Len(d) :
                      d[i] = ExtensionsEvent => q[i] = i}}

\* An order that keeps the extension fields as they are and the base fields
\* of one primitive size in their order.
KeepsEqualSized(d, o) ==
    LET k == BaseCount(d)
        n == Len(FieldsOf(d))
        base == SubSeq(FieldsOf(d), 1, k)
        obase == SubSeq(FieldsOf(o), 1, k)
    IN  /\ SubSeq(FieldsOf(o), k + 1, n) = SubSeq(FieldsOf(d), k + 1, n)
        /\ \A s \in {1, 2, 4, 8} :
             SelectSeq(obase, LAMBDA f : size(f.kind) = s)
                 = SelectSeq(base, LAMBDA f : size(f.kind) = s)

\* C27 as stated: every order of the fields of a definition gives the
\* offsets the declared order gives.
C27_PermutationInvarianceAsStated ==
    (Computed /\ parsed.kind = "ok") =>
        \A o \in Orders(decl) : try_get_offsets_from_msg(o) = parsed

\* C27, amended: every order of the fields that keeps the extension fields
\* as declared and the base fields of each primitive size in their declared
\* order gives the offsets the declared order gives.
C27_PermutationInvariance ==
    (Computed /\ parsed.kind = "ok") =>
        \A o \in Orders(decl) :
            KeepsEqualSized(decl, o) => try_get_offsets_from_msg(o) = parsed

\* Reached: target_system, a u16 and target_component were read in that
\* order; the order with the u16 first is another that keeps the two bytes
\* in their order, and both give 2 and 3.
C27_Witness ==
    /\ decl = << FieldEvent(MessageField("target_system", "U8", 1)),
                 FieldEvent(MessageField("c", "U16", 1)),
                 FieldEvent(MessageField("target_component", "U8", 1)) >>
    /\ parsed = MsgOk(<<Offsets(2, <<3>>)>>)
    /\ \E o \in Orders(decl) : o # decl /\ KeepsEqualSized(decl, o)

\* C30: once every field was read, the message yields offsets iff it has a
\* target_system field; with target_component and no target_system it
\* fails with MissingTargetSystem; with neither it yields nothing and no
\* error; with target_system alone the component offset is absent.
C30_TargetedMessageRule ==
    Computed =>
        LET hasSystem == Named(FieldsOf(decl), "target_system") # {}
            hasComponent == Named(FieldsOf(decl), "target_component") # {}
        IN  /\ (parsed.kind = "ok" /\ parsed.offsets # <<>>) <=> hasSystem
            /\ (hasComponent /\ ~hasSystem) =>
                 parsed = MsgErr("MissingTargetSystem")
            /\ (~hasComponent /\ ~hasSystem) => parsed = MsgOk(<<>>)
            /\ (hasSystem /\ ~hasComponent) =>
                 parsed.offsets[1].component_id = <<>>
            /\ (hasSystem /\ hasComponent) =>
                 parsed.offsets[1].component_id # <<>>

\* Reached: a definition with target_component and a byte and no
\* target_system failed with MissingTargetSystem.
C30_Witness ==
    /\ decl = << FieldEvent(MessageField("target_component", "U8", 1)),
                 FieldEvent(MessageField("d", "U8", 1)) >>
    /\ parsed = MsgErr("MissingTargetSystem")

(***************************************************************************)
(* Claims about the loading of definition files, under SpecParser.  With   *)
(* three files a recursion without a cycle is at most three calls deep, so *)
(* a load is aborted exactly when a file is entered while it is being      *)
(* parsed.                                                                 *)
(***************************************************************************)
LoadReturned == loaded.kind \in {"ok", "err"}

\* The message definitions of the files the load has read to their end.
ReadDefs ==
    {d \in XmlFiles \X (1..MaxItems) :
        /\ d[1] \in visited_xml_files
        /\ d[2] <= Len(files[d[1]])
        /\ files[d[1]][d[2]].it = "message"}

DefAt(d) == files[d[1]][d[2]]

UniqueIds ==
    \A i, j \in 1..Len(loaded.table) :
        i # j => loaded.table[i][1] # loaded.table[j][1]

MultipleIds == LoadErr("MultipleMessagesWithSameId")

C29_IncludeResolution ==
    /\ loaded.kind # "aborted"
    /\ \A i, j \in 1..Len(targeted_messages) :
          i # j => <<targeted_messages[i].file, targeted_messages[i].place>>
                     # <<targeted_messages[j].file, targeted_messages[j].place>>
    /\ LoadReturned =>
          \A d \in ReadDefs :
             DefAt(d).offsets # <<>> =>
                \E i \in 1..Len(targeted_messages) :
                   <<targeted_messages[i].file, targeted_messages[i].place>> = d


(***************************************************************************)
(* Claims about the validation of target fields, under SpecMsgParser.      *)
(***************************************************************************)
\* The event at i is a target field of another type than uint8_t, or a
\* uint8_t array.
BadTargetAt(d, i) ==
    /\ d[i].ev = "field"
    /\ d[i].field.name \in {"target_system", "target_component"}
    /\ (d[i].field.kind # "U8" \/ d[i].field.multiplicity # 1)

\* The event at i ends the parse with an error: a bad target field, or a
\* second <extensions/> marker.
FailsAt(d, i) ==
    \/ BadTargetAt(d, i)
    \/ d[i].ev = "extensions" /\ \E j \in 1..(i - 1) : d[j].ev = "extensions"

\* C31: a definition with a target field that is not a uint8_t, or is a
\* uint8_t array, yields an error and no offsets; where that field is the
\* first event the parse fails at, the error is TargetFieldNotU8 for
\* another type and TargetFieldNotSingleValue for a uint8_t array.
C31_TargetFieldValidation ==
    parsed.kind # "none" =>
        \A i \in 1..Len(decl) :
            BadTargetAt(decl, i) =>
                /\ parsed.kind = "err" /\ parsed.offsets = <<>>
                /\ (\A j \in 1..(i - 1) : ~FailsAt(decl, j)) =>
                     parsed.err = IF decl[i].field.kind # "U8"
                                  THEN "TargetFieldNotU8"
                                  ELSE "TargetFieldNotSingleValue"

\* Reached: behind a good target_system, a target_component that is an
\* array of two bytes failed the message with TargetFieldNotSingleValue.
C31_Witness ==
    /\ decl = << FieldEvent(MessageField("target_system", "U8", 1)),
                 FieldEvent(MessageField("target_component", "U8", 2)) >>
    /\ parsed = MsgErr("TargetFieldNotSingleValue")

(***************************************************************************)
(* Claims about what the endpoints learn and whom they forward to.         *)
(***************************************************************************)
\* C36: every entry of every endpoint's target database has a SysCompId
\* with sys_id # 0 and comp_id # 0.
C36_OnlyValidSendersLearned ==
    \A e \in Endpoints : \A i \in 1..Len(db[e]) :
        db[e][i][1][1] # 0 /\ db[e][i][1][2] # 0

\* Reached: endpoint B received a frame of the sender (0, 1) and has
\* learned a peer from another frame.
C36_Witness ==
    /\ db["B"] # <<>>
    /\ \E k \in 1..Len(hist) : hist[k].ep = "B" /\ Sender(k) = <<0, 1>>

\* The frames that have left their receiver task under SpecRouter: in the
\* Router's channel, in the Router's hands, in the channel of a sender task
\* or sent.
Visible ==
    Range(msgs) \cup {routing.msg}
        \cup UNION {Range(queue[e]) : e \in Endpoints}
        \cup UNION {{sent[e][i].frame : i \in 1..Len(sent[e])} :
                       e \in Endpoints}

\* C37: while a frame of a valid sender S from address P waits in its
\* receiver for the send, the database of its endpoint holds (S, P); once
\* it is visible the database holds S, and the sender task of that
\* endpoint has looked it up in a database that holds S.
C37_LearningPrecedesPublishing ==
    \A k \in 1..Len(hist) :
        LET E == hist[k].ep
        IN  (Sender(k)[1] # 0 /\ Sender(k)[2] # 0) =>
              /\ rmsg[E] = k => <<Sender(k), hist[k].addr>> \in Range(db[E])
              /\ k \in Visible => position(db[E], Sender(k)) # 0
              /\ \A i \in Records(E, k) :
                    position(sent[E][i].looked, Sender(k)) # 0

\* Reached: the sender task of endpoint A has processed a frame that A
\* received from a valid sender.
C37_Witness ==
    \E k \in 1..Len(hist) :
        /\ hist[k].ep = "A"
        /\ Sender(k)[1] # 0 /\ Sender(k)[2] # 0
        /\ Records("A", k) # {}

C39_NoDeduplicationByAddress ==
    \A e \in Endpoints : \A i \in 1..Len(sent[e]) :
        LET r == sent[e][i]
            ri == hist[r.frame].routing_info
            entries(a) == {j \in 1..Len(r.looked) :
                             /\ r.looked[j][2] = a
                             /\ RoutingInfo_matches(ri, r.looked[j][1])}
        IN  \A a \in {"PA", "PB", "PC"} :
               IF r.ok THEN Count(r.fed, a) = Cardinality(entries(a))
               ELSE Count(r.fed, a) <= Cardinality(entries(a))

\* Reached: a frame was fed twice to PA, which endpoint A records under
\* two SysCompIds.
C39_Witness ==
    \E i \in 1..Len(sent["A"]) :
        /\ sent["A"][i].ok
        /\ Count(sent["A"][i].fed, "PA") = 2

(***************************************************************************)
(* Claims about the lock of the target database, under SpecDbLock.         *)
(***************************************************************************)
RECURSIVE Replay(_)
\* The database the calls that have ended leave, made one after another.
Replay(calls) ==
    IF calls = <<>> THEN <<>>
    ELSE LET c == calls[Len(calls)]
         IN  insert_or_update(Replay(SubSeq(calls, 1, Len(calls) - 1)),
                              c.sender, c.addr)

\* C33: between the lookup of an insert_or_update and its write the
\* entries are as the lookup saw them, so an index found still holds the
\* SysCompId and an absent SysCompId is still absent; the database is what
\* the calls that have ended give one after another (no update is lost),
\* and no SysCompId is in it twice.
C33_UpgradeDiscipline ==
    /\ \A t \in DbWriters :
          dbtask[t].pc \in {"update", "push"} =>
             /\ targets = dbtask[t].seen
             /\ dbtask[t].pc = "update" =>
                   targets[dbtask[t].index][1] = dbtask[t].sender
             /\ dbtask[t].pc = "push" =>
                   \A i \in 1..Len(targets) : targets[i][1] # dbtask[t].sender
    /\ targets = Replay(applied)
    /\ \A i, j \in 1..Len(targets) : i # j => targets[i][1] # targets[j][1]

\* Reached: w1 has found its sender with another address and waits for a
\* reader to leave before it writes, after a call of w2 has ended.
C33_Witness ==
    /\ dbtask["w1"].pc = "update"
    /\ ~dbtask["w1"].upgraded
    /\ rwlock.readers # {}
    /\ \E i \in 1..Len(applied) : applied[i].pc = "w2"

\* C34: an insert_or_update that finds its entry holds the upgradable read
\* only, beside which a reader is admitted, and is itself admitted beside
\* readers; a call has taken the write lock iff the database it looked at
\* did not hold its entry.
C34_ReadOnlyCommonPath ==
    /\ \A t \in DbWriters :
          dbtask[t].pc = "same" =>
             /\ ~dbtask[t].upgraded
             /\ rwlock.writer = {}
             /\ \A r \in DbReaders :
                   (dbtask[r].pc = "idle" /\ nops < MaxOps)
                      => ENABLED ReadBegin(r)
    /\ \A t \in DbWriters :
          (/\ dbtask[t].pc = "idle" /\ nops < MaxOps
           /\ rwlock.upgradable = {} /\ rwlock.writer = {})
             => ENABLED InsertBegin(t, S, "a1")
    /\ \A i \in 1..Len(applied) :
          applied[i].upgraded <=>
             <<applied[i].sender, applied[i].addr>> \notin Range(applied[i].seen)
    /\ \A t \in DbWriters :
          dbtask[t].upgraded =>
             <<dbtask[t].sender, dbtask[t].addr>> \notin Range(dbtask[t].seen)

\* Reached: w1 has found its entry and holds the upgradable read while the
\* reader holds the shared read.
C34_Witness ==
    /\ dbtask["w1"].pc = "same"
    /\ "r1" \in rwlock.readers

(***************************************************************************)
(* Claims about the TcpTransmitter, under SpecTcp.  Every state finds      *)
(* every task at an await point.                                           *)
(***************************************************************************)
\* C32: no task holds the Mutex of the connection map while it waits at an
\* await point.  (The guard of the target database's RwLock never lives
\* across an await: insert_or_update and get_target_addresses are
\* synchronous and return without it.)
C32_NoLockAcrossSuspension == mutex = "none"

\* C35: a read that returns an error ends the reader task's loop, so that
\* it removes its peer's writer; and a reader task that removes its entry
\* changes the entry of no other address.
C35_ReadErrorIsolation ==
    [][\A c \in 1..Len(conns) :
          /\ conns'[c].errs > conns[c].errs =>
                conns'[c].reader \in {"remove", "done"}
          /\ (conns[c].reader = "remove" /\ conns'[c].reader = "done") =>
                /\ connections'[conns[c].addr] = 0
                /\ \A a \in TcpAddrs \ {conns[c].addr} :
                      connections'[a] = connections[a]]_vars

\* C40: a connection whose writer was inserted, that its peer has open
\* and whose reader task is reading has its writer in the connection map,
\* and no frame for its address is dropped as 'No connection'.
C40_WriterMapConsistency ==
    /\ \A a \in TcpAddrs : \A c \in Live(a) : connections[a] = c
    /\ \A i \in 1..Len(wlog) : wlog[i].conn = 0 => wlog[i].live = {}

====
